---- MODULE Spec2Model ----
(***************************************************************************)
(* Secure-element driver (single-wire link, command/response framing with  *)
(* CRC and retries, authentication protocols) of the Passport firmware:    *)
(* src/ports/stm32/boards/Passport/adc.h.                                  *)
(*                                                                         *)
(* The specifications:                                                     *)
(*   SpecCodec  pulse level:   _send_bits / deserialize                    *)
(*   SpecCrc    byte level:    se_crc16_chain                              *)
(*   Spec       call level:    se_write and se_read over a line that may   *)
(*                             deliver any response                        *)
(*   SpecAuth   call level:    se_checkmac (with se_pick_nonce, se_read1)  *)
(*                             and se_pair_unlock over the same line       *)
(*   SpecFrame  call level:    what se_write, se_sleep, se_idle, se_wake     *)
(*                             put on the wire                             *)
(*   SpecChip   se_checkmac over a lossless line and a chip that follows   *)
(*              the command set and the wake/idle/sleep flags              *)
(*   SpecCfg    se_config_read                                             *)
(*   SpecHard   se_gendig_slot, se_is_correct_tempkey, se_checkmac_hard    *)
(*   SpecWrite  se_encrypted_write32, se_encrypted_write                   *)
(*   SpecOps    every operation that ends with se_sleep, one call per run  *)
(*   SpecPulse  se_read one _read_byte at a time, with fairness            *)
(*   SpecStats  Spec with se_dump_stats: the diagnostic counters          *)
(***************************************************************************)
EXTENDS Integers, Sequences, FiniteSets, TLC

VARIABLES
    cnt,            \* the diagnostic counters (lines 59-66)
    current_opcode, \* static seopcode_t current_opcode (line 74)
    stack,          \* the host's call stack: one frame per active function
    ret,            \* the value the last returning function handed back
    bus,            \* what the host has put on the wire during the current call
    rd,             \* record of the current / most recent se_read call
    top,            \* record of the current / most recent top-level call
    line,           \* the wire between chip and host: what it may still do
    chip,           \* the chip: TempKey, pending response
    au,             \* record of the most recent se_checkmac / se_pair_unlock
    pf              \* operands and results of the pure functions

vars == <<cnt, current_opcode, stack, ret, bus, rd, top, line, chip, au, pf>>

----------------------------------------------------------------------------
(* Bytes and bit operations of C                                           *)

Byte == 0..255

\* a ^ b on 4 bits, bit by bit
Xor4 ==
    [a \in 0..15 |-> [b \in 0..15 |->
        (((a % 2) + (b % 2)) % 2)
        + 2 * ((((a \div 2) % 2) + ((b \div 2) % 2)) % 2)
        + 4 * ((((a \div 4) % 2) + ((b \div 4) % 2)) % 2)
        + 8 * (((a \div 8) + (b \div 8)) % 2)]]

\* a ^ b on non-negative integers, 4 bits at a time
RECURSIVE BitXor(_, _)
BitXor(a, b) ==
    IF a = 0 THEN b
    ELSE IF b = 0 THEN a
    ELSE Xor4[a % 16][b % 16] + 16 * BitXor(a \div 16, b \div 16)

\* (x & (1 << i)) ? 1 : 0
BitAt(x, i) == (x \div (2 ^ i)) % 2

Min(a, b) == IF a < b THEN a ELSE b

SeqOf(n, v) == [i \in 1..n |-> v]

----------------------------------------------------------------------------
(* BitLink: lines 76-190                                                   *)

BIT0 == 125     \* 0x7d
BIT1 == 127     \* 0x7f

IOFLAG_CMD   == 119     \* 0x77
IOFLAG_TX    == 136     \* 0x88
IOFLAG_IDLE  == 187     \* 0xBB
IOFLAG_SLEEP == 204     \* 0xCC

\* _send_bits: the 8 raw bytes handed to _send_byte, mask 0x1 first
send_bits(tx) ==
    [i \in 1..8 |-> IF BitAt(tx, i - 1) = 1 THEN BIT1 ELSE BIT0]

\* _send_serialized: _send_bits of every byte of buf, in order
send_serialized(buf) ==
    [i \in 1..(8 * Len(buf)) |-> send_bits(buf[((i - 1) \div 8) + 1])[((i - 1) % 8) + 1]]

\* _read_byte when a raw byte arrived: MY_UART->RDR & 0x7f
read_byte(rdr) == rdr % 128

\* the inner loop with the #else branch of line 177: only BIT1 is a one
RECURSIVE deserialize_byte_strict(_, _, _)
deserialize_byte_strict(from, off, i) ==
    IF i >= 8 THEN 0
    ELSE (IF from[off + i + 1] = BIT1 THEN 2 ^ i ELSE 0)
         + deserialize_byte_strict(from, off, i + 1)

\* the inner loop of deserialize: rv from the 8 raw bytes from[0..7], where
\* `from` has been advanced by off
RECURSIVE deserialize_byte(_, _, _)
deserialize_byte(from, off, i) ==
    IF i >= 8 THEN 0
    ELSE (IF BitXor(from[off + i + 1], 127) < 2 THEN 2 ^ i ELSE 0)
         + deserialize_byte(from, off, i + 1)

\* the outer loop of deserialize: the bytes written through `into`, in
\* order.  The body runs while from_len > 0 and the loop is left once
\* max_into has been counted down to 0.
RECURSIVE deserialize_loop(_, _, _, _)
deserialize_loop(from, off, from_len, max_into) ==
    IF from_len <= 0 THEN <<>>
    ELSE LET rv == deserialize_byte(from, off, 0)
         IN IF max_into - 1 <= 0 THEN <<rv>>
            ELSE <<rv>> \o deserialize_loop(from, off + 8, from_len - 8, max_into - 1)

\* deserialize(from, from_len, into, max_into)
deserialize(from, from_len, max_into) == deserialize_loop(from, 0, from_len, max_into)

----------------------------------------------------------------------------
(* CRC16Chain: lines 410-435                                               *)

polynom == 32773    \* 0x8005

\* the inner loop of se_crc16_chain: the 8 bits of one data byte, mask 0x01
\* first; crc_register is a uint16_t
RECURSIVE crc_byte(_, _, _)
crc_byte(crc_register, d, k) ==
    IF k = 8 THEN crc_register
    ELSE LET data_bit == BitAt(d, k)
             crc_bit  == crc_register \div 32768
             shifted  == (crc_register * 2) % 65536
             nxt      == IF data_bit # crc_bit THEN BitXor(shifted, polynom)
                         ELSE shifted
         IN IF nxt >= 0 THEN crc_byte(nxt, d, k + 1) ELSE 0

\* the outer loop: counter = i-1 .. length-1, the bytes taken in order; the
\* range is evaluated in two halves, first the lower, to keep the
\* evaluation shallow for long buffers
RECURSIVE crc_loop(_, _, _, _)
crc_loop(crc_register, data, i, length) ==
    IF i > length THEN crc_register
    ELSE IF i = length THEN crc_byte(crc_register, data[i], 0)
    ELSE LET mid == (i + length) \div 2
             nxt == crc_loop(crc_register, data, i, mid)
         IN IF nxt >= 0 THEN crc_loop(nxt, data, mid + 1, length) ELSE 0

\* se_crc16_chain that starts every call from a zero register
se_crc16_chain_noseed(length, data, crc) ==
    LET crc_register == crc_loop(0, data, 1, length)
    IN <<crc_register % 256, crc_register \div 256>>

\* se_crc16_chain(length, data, crc): the new contents of crc[2]
se_crc16_chain(length, data, crc) ==
    LET crc_register == crc_loop(crc[1] + 256 * crc[2], data, 1, length)
    IN <<crc_register % 256, crc_register \div 256>>

----------------------------------------------------------------------------
(* The command set (se.h) and the secrets (secrets.h)                      *)

OP_Read     == 2      \* 0x02
OP_MAC      == 8      \* 0x08
OP_Write    == 18     \* 0x12
OP_GenDig   == 21     \* 0x15
OP_Nonce    == 22     \* 0x16
OP_CheckMac == 40     \* 0x28
OP_Info     == 48     \* 0x30

KEYNUM_pairing == 1

\* rom_secrets->pairing_secret
pairing_secret == SeqOf(32, 90)

\* "(C) 2020 Foundation Devices Inc.": 32 characters
copyright_msg ==
    <<40, 67, 41, 32, 50, 48, 50, 48, 32, 70, 111, 117, 110, 100, 97, 116,
      105, 111, 110, 32, 68, 101, 118, 105, 99, 101, 115, 32, 73, 110, 99, 46>>

\* rng_buffer(buf, n): n bytes, here one of two strings
RngSeeds == {17, 165}
RngBuf(seed, n) == [i \in 1..n |-> (seed + 3 * i) % 256]

\* sha256_init / sha256_update / sha256_final: a digest of 32 bytes that is a
\* function of the whole message.  h is a 23-bit polynomial hash of it.
RECURSIVE ShaFold(_, _, _)
ShaFold(h, msg, i) ==
    IF i > Len(msg) THEN h
    ELSE LET nxt == (h * 131 + msg[i] + 1) % 8388593
         IN IF nxt >= 0 THEN ShaFold(nxt, msg, i + 1) ELSE 0

Sha256(msg) ==
    LET h == ShaFold(Len(msg), msg, 1)
    IN [j \in 1..32 |->
          CASE j % 3 = 1 -> (h + j) % 256
            [] j % 3 = 2 -> ((h \div 256) + j) % 256
            [] OTHER     -> ((h \div 65536) + j) % 256]

----------------------------------------------------------------------------
(* FrameTransport, inbound: lines 220-273                                  *)

\* the width of the `length` parameter of check_crc and of se_crc16_chain
U8(x) == x % 256

\* check_crc(data, length); length is a uint8_t
check_crc(data, length) ==
    IF data[1] # length THEN FALSE
    ELSE LET obs == se_crc16_chain(U8(length - 2), data, <<0, 0>>)
         IN obs[1] = data[length - 1] /\ obs[2] = data[length]

\* se_read_response(buf, max_len), given the raw bytes that arrive until the
\* receiver times out: the return value and the bytes written to buf
se_read_response(pulses, max_len) ==
    LET max_expect == (max_len + 1) * 8
        count  == Len(pulses)              \* actual when the loop is left
        raw    == [i \in 1..Min(count, max_expect) |-> read_byte(pulses[i])]
        actual == count - (count % 8)      \* actual &= ~7
    IN [actual |-> actual \div 8, buf |-> deserialize(raw, actual, max_len)]

----------------------------------------------------------------------------
(* The chip's side of the wire, and what the wire may deliver              *)

\* a response frame: length byte, payload, CRC over both (zero seed)
ChipFrame(payload) ==
    LET lp == <<Len(payload) + 3>> \o payload
    IN lp \o se_crc16_chain(Len(lp), lp, <<0, 0>>)

\* one-byte results and error codes the chip reports; 0xEE: watchdog expired
StatusCodes == {0, 1, 238}
ErrorCodes  == {1, 238}

\* the requested lengths of the reads that are modelled
ReadLens == {1, 2, 32}

Payloads(len) ==
    IF len = 1 THEN {<<c>> : c \in StatusCodes}
    ELSE {RngBuf(s, len) : s \in RngSeeds}

WithLast(f, b)  == [f EXCEPT ![Len(f)] = b]
WithFirst(f, b) == [f EXCEPT ![1] = b]

\* how many bytes a line that does not fall silent adds to a frame
MaxExtra == 1

\* the byte strings that may arrive after a TX flag when len payload bytes
\* are awaited: well-formed frames, error frames, and damaged ones
LineSends(len) ==
    LET good == {ChipFrame(p) : p \in Payloads(len)}
        errs == {ChipFrame(<<c>>) : c \in ErrorCodes}
    IN  good \cup errs
        \cup {WithLast(f, (f[Len(f)] + 1) % 256) : f \in good \cup errs}
        \cup {WithFirst(f, len + 4) : f \in good}
        \cup UNION {{SubSeq(f, 1, n) : n \in {0, 1, 3, Len(f) - 1}} : f \in good}
        \cup {f \o SeqOf(k, 0) : f \in good, k \in 1..MaxExtra}
        \cup {f \o SeqOf(256, 0) : f \in good}

\* the same as raw bytes on the wire, the last one possibly followed by a
\* stray pulse
LinePulses(len) ==
    {send_serialized(b) : b \in LineSends(len)}
    \cup {send_serialized(ChipFrame(p)) \o <<BIT1>> : p \in Payloads(len)}

\* what se_read_response can return for each awaited length
Deliveries ==
    [len \in ReadLens |-> {se_read_response(p, len + 3) : p \in LinePulses(len)}]

NoResp == [actual |-> -1, buf |-> <<>>]

\* check_crc over the deliveries, computed once
CrcKeys ==
    UNION {{<<r.buf, U8(r.actual)>> : r \in {d \in Deliveries[len] : d.actual >= 4}}
           : len \in ReadLens}
CrcTable == [k \in CrcKeys |-> check_crc(k[1], k[2])]

\* check_crc(tmp, actual) as se_read calls it: the int actual is converted
\* to the uint8_t parameter
check_crc_call(tmp, actual) ==
    LET k == <<tmp, U8(actual)>>
    IN IF k \in CrcKeys THEN CrcTable[k] ELSE check_crc(tmp, U8(actual))

----------------------------------------------------------------------------
(* FrameTransport: se_write (lines 275-328), se_read (330-397),            *)
(* se_read1 (399-408)                                                      *)

\* for (retry=100; ...)
RetryBudget == 100

CounterNames ==
    {"crc_errors", "not_ready_n", "short_error", "len_error",
     "len_error_two", "ln_retry", "retry_out", "wdgtimeout"}

ZeroCnt == [k \in CounterNames |-> 0]

\* x++ on each of the counters named (uint32_t: the model stays far below 2^32)
Incr(c, names) == [k \in CounterNames |-> IF k \in names THEN c[k] + 1 ELSE c[k]]

\* the struct `known` of se_write; framed_len is a uint8_t
known(opcode, p1, p2, data_len) ==
    [ioflag     |-> IOFLAG_CMD,
     framed_len |-> U8(data_len + 7),
     op         |-> opcode,
     p1         |-> p1,
     p2_lsb     |-> p2 % 256,
     p2_msb     |-> (p2 \div 256) % 256]

\* a se_write that leaves current_opcode as it was
se_write_opcode_stale(opcode) == current_opcode

\* se_write, line 300: current_opcode = opcode
se_write_opcode(opcode) == opcode

\* what the host puts on the wire
Wake        == [t |-> "wake"]                       \* se_wake: raw 0x00, delay
Flag(f)     == [t |-> "flag", v |-> f]              \* _send_bits(IOFLAG_x)
Cmd(k, d)   == [t |-> "cmd", hdr |-> k, body |-> d] \* header, body, CRC

\* se_write: the emissions, in order (the busy bar is not part of the model)
se_write_emits(opcode, p1, p2, data) ==
    <<Wake, Cmd(known(opcode, p1, p2, Len(data)), data)>>

\* memcpy(data, tmp + 1, actual - 3): the bytes copied that lie inside tmp
memcpy_tmp(tmp, actual) == SubSeq(tmp, 2, Min(actual - 2, Len(tmp)))

\* the loop body of se_read that treats every opcode as Info
se_read_try_nocheck(opcode, len, resp) ==
    IF resp.actual < 4
    THEN [go |-> "try_again",
          inc |-> IF resp.actual = 0 THEN {"not_ready_n"} ELSE {"short_error"}]
    ELSE [go |-> "return_0", inc |-> {}]

\* the loop body of se_read that retries a 4-byte error frame
se_read_try_noterm(opcode, len, resp) ==
    LET actual == resp.actual
        tmp    == resp.buf
    IN IF actual < 4
       THEN [go |-> "try_again",
             inc |-> IF actual = 0 THEN {"not_ready_n"} ELSE {"short_error"}]
       ELSE IF opcode # OP_Info /\ tmp[1] # len + 3
       THEN [go |-> "try_again", inc |-> {"len_error"}]
       ELSE IF opcode # OP_Info /\ ~check_crc_call(tmp, actual)
       THEN [go |-> "try_again", inc |-> {"crc_errors"}]
       ELSE [go |-> "return_0", inc |-> {}]

\* the loop body of se_read whose bad-CRC branch does not count crc_errors
se_read_try_uncounted(opcode, len, resp) ==
    LET actual == resp.actual
        tmp    == resp.buf
    IN IF actual < 4
       THEN [go |-> "try_again",
             inc |-> IF actual = 0 THEN {"not_ready_n"} ELSE {"short_error"}]
       ELSE IF opcode # OP_Info /\ tmp[1] # len + 3
       THEN IF tmp[1] = 4
            THEN [go |-> "return_m1",
                  inc |-> {"len_error", "len_error_two"}
                          \cup (IF tmp[2] = 238 THEN {"wdgtimeout"} ELSE {})]
            ELSE [go |-> "try_again", inc |-> {"len_error"}]
       ELSE IF opcode # OP_Info /\ ~check_crc_call(tmp, actual)
       THEN [go |-> "try_again", inc |-> {}]
       ELSE [go |-> "return_0", inc |-> {}]

\* the loop body of se_read, lines 338-390, on what se_read_response gave:
\* where control goes and which counters are incremented on the way
se_read_try(opcode, len, resp) ==
    LET actual == resp.actual
        tmp    == resp.buf
    IN IF actual < 4
       THEN [go |-> "try_again",
             inc |-> IF actual = 0 THEN {"not_ready_n"} ELSE {"short_error"}]
       ELSE IF opcode # OP_Info /\ tmp[1] # len + 3
       THEN IF tmp[1] = 4
            THEN [go |-> "return_m1",
                  inc |-> {"len_error", "len_error_two"}
                          \cup (IF tmp[2] = 238 THEN {"wdgtimeout"} ELSE {})]
            ELSE [go |-> "try_again", inc |-> {"len_error"}]
       ELSE IF opcode # OP_Info /\ ~check_crc_call(tmp, actual)
       THEN [go |-> "try_again", inc |-> {"crc_errors"}]
       ELSE [go |-> "return_0", inc |-> {}]

\* one pass of se_read that wakes the chip again before the TX flag
se_read_emits_rewake(go) ==
    <<Wake, Flag(IOFLAG_TX)>> \o (IF go = "return_0" THEN <<Flag(IOFLAG_IDLE)>> ELSE <<>>)

\* one pass of se_read that sends IDLE whatever the outcome
se_read_emits_idle(go) == <<Flag(IOFLAG_TX), Flag(IOFLAG_IDLE)>>

\* what one pass of the loop of se_read puts on the wire: the TX flag of
\* se_read_response (line 231) and, on success, the IDLE flag (line 388)
se_read_emits(go) ==
    <<Flag(IOFLAG_TX)>> \o (IF go = "return_0" THEN <<Flag(IOFLAG_IDLE)>> ELSE <<>>)

\* the loop control of se_read with one attempt fewer
loop_continues_short(retry) == retry - 1 > 0

\* for (...; retry >= 0; retry--): whether another pass follows try_again
loop_continues(retry) == retry - 1 >= 0

\* se_read1: -1, or the byte read
se_read1(r) == IF r.rc < 0 THEN -1 ELSE r.data[1]

----------------------------------------------------------------------------
(* The chip: TempKey and the commands Nonce and CheckMac, the flags        *)

\* the data slots the chip holds
other_secret == SeqOf(32, 60)
wrong_secret == SeqOf(32, 195)
ChipSlots == [k \in {KEYNUM_pairing, 3} |->
                 IF k = KEYNUM_pairing THEN pairing_secret ELSE other_secret]

\* the chip's random numbers
ChipRands == {RngBuf(s, 32) : s \in RngSeeds}

\* the device serial number the chip reports and secrets.h records
se_serial_number == <<1, 35, 77, 78, 79, 80, 81, 82>>

\* the configuration zone, four blocks of 32 bytes
ChipConfig == [blk \in 0..3 |-> SeqOf(32, 16 * (blk + 1))]

\* pairing: the contents of the chip's pairing slot; wrote: the address and
\* plaintext of the Write the chip accepted since it last woke
ChipOff == [on |-> FALSE, mode |-> "asleep", tempkey |-> <<>>, out |-> <<>>,
            pairing |-> pairing_secret, wrote |-> <<>>]
ChipOn  == [ChipOff EXCEPT !.on = TRUE]
\* a chip that was paired with another host
ChipForeign == [ChipOn EXCEPT !.pairing = wrong_secret]

\* the contents of slot k of chip c
ChipSlot(c, k) == IF k = KEYNUM_pairing THEN c.pairing ELSE ChipSlots[k]

\* the bytes both sides hash after the opcode and parameters
ChipPad == <<238, 1, 35>> \o SeqOf(25, 0)

\* the chip runs a command; rand is its random number for this command.
\* TempKey is empty when it holds nothing valid.
ChipExec(c, hdr, body, rand) ==
    CASE hdr.op = OP_Nonce /\ Len(body) = 20 ->
            [c EXCEPT !.tempkey = Sha256(rand \o body \o <<OP_Nonce, hdr.p1, hdr.p2_lsb>>),
                      !.out = ChipFrame(rand)]
      [] hdr.op = OP_CheckMac /\ Len(body) = 77 /\ hdr.p2_lsb \in DOMAIN ChipSlots ->
            IF c.tempkey = <<>>
            THEN [c EXCEPT !.out = ChipFrame(<<15>>)]     \* 0x0F: cannot execute
            ELSE LET od   == SubSeq(body, 65, 77)
                     mine == Sha256(ChipSlot(c, hdr.p2_lsb) \o c.tempkey
                                    \o SubSeq(od, 1, 4) \o SeqOf(8, 0)
                                    \o SubSeq(od, 5, 7) \o <<238>>
                                    \o SubSeq(od, 8, 11) \o <<1, 35>>
                                    \o SubSeq(od, 12, 13))
                 IN [c EXCEPT !.tempkey = <<>>,
                              !.out = ChipFrame(IF SubSeq(body, 33, 64) = mine
                                                THEN <<0>> ELSE <<1>>)]
      [] hdr.op = OP_GenDig /\ Len(body) = 0 /\ hdr.p2_lsb \in DOMAIN ChipSlots ->
            IF c.tempkey = <<>>
            THEN [c EXCEPT !.out = ChipFrame(<<15>>)]
            ELSE [c EXCEPT !.tempkey = Sha256(ChipSlot(c, hdr.p2_lsb)
                                              \o <<OP_GenDig, hdr.p1, hdr.p2_lsb, hdr.p2_msb>>
                                              \o ChipPad \o c.tempkey),
                           !.out = ChipFrame(<<0>>)]
      [] hdr.op = OP_MAC /\ Len(body) = 0 /\ hdr.p2_lsb \in DOMAIN ChipSlots ->
            IF c.tempkey = <<>>
            THEN [c EXCEPT !.out = ChipFrame(<<15>>)]
            ELSE [c EXCEPT !.tempkey = <<>>,
                           !.out = ChipFrame(Sha256(ChipSlot(c, hdr.p2_lsb) \o c.tempkey
                                                    \o <<OP_MAC, hdr.p1, hdr.p2_lsb, hdr.p2_msb>>
                                                    \o SeqOf(11, 0) \o <<238>>
                                                    \o SubSeq(se_serial_number, 5, 8)
                                                    \o SubSeq(se_serial_number, 1, 4)))]
      [] hdr.op = OP_Write /\ Len(body) = 64 ->
            IF c.tempkey = <<>>
            THEN [c EXCEPT !.out = ChipFrame(<<15>>)]
            ELSE LET plain == [i \in 1..32 |-> BitXor(body[i], c.tempkey[i])]
                     mine  == Sha256(c.tempkey
                                     \o <<OP_Write, hdr.p1, hdr.p2_lsb, hdr.p2_msb>>
                                     \o ChipPad \o plain)
                 IN IF SubSeq(body, 33, 64) = mine
                    THEN [c EXCEPT !.tempkey = <<>>, !.out = ChipFrame(<<0>>),
                                   !.wrote = <<hdr.p2_lsb, hdr.p2_msb, plain>>]
                    ELSE [c EXCEPT !.tempkey = <<>>, !.out = ChipFrame(<<1>>)]
      [] hdr.op = OP_Read /\ Len(body) = 0 /\ hdr.p1 = 128
                          /\ hdr.p2_lsb \in {0, 8, 16, 24} ->
            [c EXCEPT !.out = ChipFrame(ChipConfig[hdr.p2_lsb \div 8])]
      [] OTHER -> [c EXCEPT !.out = ChipFrame(<<3>>)]      \* 0x03: parse error

\* the chip sees one thing the host put on the wire.  Idle and sleep suspend
\* its clocking until the next wake: it acts on commands and flags only while
\* awake.  IDLE keeps the session state, SLEEP resets it.
ChipSees(c, item, rand) ==
    IF ~c.on THEN c
    ELSE IF item.t = "wake" THEN [c EXCEPT !.mode = "awake", !.wrote = <<>>]
    ELSE IF c.mode # "awake" THEN c
    ELSE CASE item.t = "cmd" -> ChipExec(c, item.hdr, item.body, rand)
           [] item.t = "flag" /\ item.v = IOFLAG_IDLE -> [c EXCEPT !.mode = "idle"]
           [] item.t = "flag" /\ item.v = IOFLAG_SLEEP ->
                [c EXCEPT !.mode = "asleep", !.tempkey = <<>>, !.out = <<>>]
           [] OTHER -> c

RECURSIVE ChipAfter(_, _, _)
ChipAfter(c, items, rand) ==
    IF items = <<>> THEN c
    ELSE ChipAfter(ChipSees(c, Head(items), rand), Tail(items), rand)

\* what the chip answers to a TX request
ChipSends(c) == IF c.mode = "awake" THEN c.out ELSE <<>>

\* the random numbers the chip may draw for the next command
RandChoices == IF chip.on THEN ChipRands ELSE {<<>>}

----------------------------------------------------------------------------
(* The line: how often it may fail                                         *)

\* responses the host does not accept, over a whole run of se_write/se_read
MaxFaults == 2
\* the same over a whole run of the authentication calls
MaxAuthFaults == 1
\* times the line goes dead: the same response until se_read gives up
MaxStuck == 1

\* what the line may still do wrong, and the response it is stuck on
LineInit == [faults |-> MaxFaults, episodes |-> MaxStuck, stuck |-> NoResp]
LineInitAuth == [LineInit EXCEPT !.faults = MaxAuthFaults]
\* a line that never fails
LineLossless == [faults |-> 0, episodes |-> 0, stuck |-> NoResp]

\* the responses a dead line repeats: nothing, 3 bytes of a frame, a frame
\* with a wrong length byte, a frame with a wrong CRC
StuckResps ==
    [len \in ReadLens |->
        LET f == ChipFrame(CHOOSE p \in Payloads(len) : TRUE)
        IN {se_read_response(send_serialized(b), len + 3) :
              b \in {<<>>, SubSeq(f, 1, 3), WithFirst(f, len + 4),
                     WithLast(f, (f[Len(f)] + 1) % 256)}}]

\* what a line may put in the place of the chip's answer: nothing, a frame
\* with a wrong CRC, the 4-byte frame of a chip whose watchdog expired
LineFaults ==
    [len \in ReadLens |->
        LET f == ChipFrame(CHOOSE p \in Payloads(len) : TRUE)
        IN {se_read_response(send_serialized(b), len + 3) :
              b \in {<<>>, WithLast(f, (f[Len(f)] + 1) % 256), ChipFrame(<<238>>)}}]

\* what the chip's answer becomes when the line carries it unchanged
ChipResp(len) == se_read_response(send_serialized(ChipSends(chip)), len + 3)

\* what se_read_response may return now
Responses(len) ==
    IF line.stuck # NoResp THEN {line.stuck}
    ELSE IF chip.on
    THEN {ChipResp(len)}
         \cup (IF line.faults > 0 \/ line.episodes > 0 THEN LineFaults[len] ELSE {})
    ELSE Deliveries[len]

\* the line after it delivered resp, which the host took as t
LineNext(len, resp, t) ==
    IF \/ line.stuck = resp
       \/ chip.on /\ resp = ChipResp(len)
       \/ ~chip.on /\ t.go = "return_0"
    THEN {line}
    ELSE (IF line.faults > 0
          THEN {[line EXCEPT !.faults = @ - 1]} ELSE {})
         \cup
         (IF /\ line.episodes > 0
             /\ t.go = "try_again"
             /\ resp \in StuckResps[len]
          THEN {[line EXCEPT !.episodes = @ - 1, !.stuck = resp]} ELSE {})

----------------------------------------------------------------------------
(* The host: a stack of calls in progress, one action per stretch of code  *)
(* between two calls                                                       *)

NoRet == [valid |-> FALSE, rc |-> 0, data |-> <<>>]
Ret(rc, data) == [valid |-> TRUE, rc |-> rc, data |-> data]

TopFrame == stack[Len(stack)]
ReplaceTop(f) == [stack EXCEPT ![Len(stack)] = f]
Running(fn) == stack # <<>> /\ TopFrame.fn = fn

\* record of the se_read call in progress or finished last
IdleRd == [active |-> FALSE, done |-> FALSE, op |-> 0, len |-> 0, tries |-> 0,
           base |-> ZeroCnt, prev |-> ZeroCnt, last |-> NoResp, go |-> "none",
           rc |-> 0, data |-> <<>>, copied |-> 0, retryable |-> TRUE]
NewRd(len) == [IdleRd EXCEPT !.active = TRUE, !.op = current_opcode,
                             !.len = len, !.base = cnt, !.prev = cnt]

\* record of the call the application made
IdleTop == [fn |-> "none", arg |-> <<>>, done |-> FALSE, rc |-> 0]
NewTop(fn, arg) == [fn |-> fn, arg |-> arg, done |-> FALSE, rc |-> 0]

\* record of se_checkmac (cm) and se_pair_unlock (pu) in progress or finished
\* last; 1 stands for "not reached"
IdleCm == [active |-> FALSE, done |-> FALSE, nonce_rc |-> 1, nonce_go |-> "none",
           status_rc |-> 1, status_go |-> "none", status |-> -1, rc |-> 1]
IdlePu == [active |-> FALSE, done |-> FALSE, rcs |-> <<>>, rc |-> 1]
IdleAu == [cm |-> IdleCm, pu |-> IdlePu]

\* records of the calls in progress or finished last; 9 stands for "not
\* reached"
IdleGd == [done |-> FALSE, nonce_rc |-> 9, status |-> 9, rc |-> 9]
IdleIct == [done |-> FALSE, read_rc |-> 9, ok |-> 9]
IdleCh == [active |-> FALSE, done |-> FALSE, gd_rc |-> 9, ok |-> 9,
           mac_sent |-> FALSE, rc |-> 9]
IdleW32 == [active |-> FALSE, done |-> FALSE, blk |-> 9, data |-> <<>>,
            pu_rc |-> 9, gd_rc |-> 9, status |-> 9, plain |-> <<>>,
            stored |-> <<>>, write_sent |-> FALSE, rc |-> 9]
IdleEw == [active |-> FALSE, done |-> FALSE, calls |-> <<>>, rc |-> 9]
IdleCr == [active |-> FALSE, done |-> FALSE, reads |-> <<>>, rcs |-> <<>>, rc |-> 9]
IdleOps == [gd |-> IdleGd, ict |-> IdleIct, ch |-> IdleCh, w32 |-> IdleW32,
            ew |-> IdleEw, cr |-> IdleCr]

ReadFrame(len) == [fn |-> "se_read", len |-> len, retry |-> RetryBudget]

\* the function on top of the stack returns v
Returned(v) ==
    /\ stack' = SubSeq(stack, 1, Len(stack) - 1)
    /\ ret' = v
    /\ top' = IF Len(stack) = 1 THEN [top EXCEPT !.done = TRUE, !.rc = v.rc]
              ELSE top

\* the class of responses a bad length byte, a bad CRC or a short read gives
Retryable(len, resp) ==
    \/ resp.actual < 4
    \/ resp.buf[1] \notin {len + 3, 4}
    \/ resp.buf[1] = len + 3 /\ ~check_crc_call(resp.buf, resp.actual)

\* se_write(opcode, p1, p2, data, data_len), lines 275-328
RawCmds == {<<OP_Info, 0, 0, <<>>>>, <<OP_Read, 128, 8, <<>>>>,
            <<OP_Nonce, 0, 0, RngBuf(17, 20)>>}

CallWrite ==
    /\ stack = <<>>
    /\ \E c \in RawCmds, rand \in RandChoices :
         /\ current_opcode' = se_write_opcode(c[1])
         /\ bus' = se_write_emits(c[1], c[2], c[3], c[4])
         /\ chip' = ChipAfter(chip, se_write_emits(c[1], c[2], c[3], c[4]), rand)
         /\ top' = [fn |-> "se_write", arg |-> c, done |-> TRUE, rc |-> 0]
    /\ ret' = NoRet
    /\ rd' = IdleRd
    /\ UNCHANGED <<cnt, stack, line, au, pf>>

\* the application calls se_read(data, len)
RawLens == {1, 2}

CallRead ==
    /\ stack = <<>>
    /\ \E len \in RawLens :
         /\ stack' = <<ReadFrame(len)>>
         /\ rd' = NewRd(len)
         /\ top' = NewTop("se_read", <<len>>)
    /\ ret' = NoRet
    /\ bus' = <<>>
    /\ UNCHANGED <<cnt, current_opcode, line, chip, au, pf>>

\* one pass of the loop of se_read, lines 335-394, and, when the loop ends,
\* lines 395-396
ReadAttempt ==
    /\ Running("se_read")
    /\ \E resp \in Responses(TopFrame.len) :
         LET f       == TopFrame
             t       == se_read_try(current_opcode, f.len, resp)
             ok      == t.go = "return_0"
             again   == t.go = "try_again"
             more    == again /\ loop_continues(f.retry)
             c1      == Incr(cnt, t.inc)
             c2      == IF again THEN Incr(c1, {"ln_retry"}) ELSE c1
             c3      == IF again /\ ~more THEN Incr(c2, {"retry_out"}) ELSE c2
             written == IF ok THEN memcpy_tmp(resp.buf, resp.actual) ELSE <<>>
             emits   == se_read_emits(t.go)
             rc      == IF ok THEN 0 ELSE -1
         IN /\ cnt' = c3
            /\ bus' = bus \o emits
            /\ chip' = ChipAfter(chip, emits, <<>>)
            /\ rd' = [rd EXCEPT !.tries = @ + 1, !.prev = cnt, !.last = resp,
                                !.go = t.go, !.done = ~more, !.rc = rc,
                                !.data = written,
                                !.copied = IF ok THEN resp.actual - 3 ELSE 0,
                                !.retryable = @ /\ Retryable(f.len, resp)]
            /\ \E ln \in LineNext(f.len, resp, t) :
                 line' = IF more THEN ln ELSE [ln EXCEPT !.stuck = NoResp]
            /\ IF more
               THEN /\ stack' = ReplaceTop([f EXCEPT !.retry = @ - 1])
                    /\ UNCHANGED <<ret, top>>
               ELSE Returned(Ret(rc, SubSeq(written, 1, Min(f.len, Len(written)))))
    /\ UNCHANGED <<current_opcode, au, pf>>

----------------------------------------------------------------------------
(* Specification of the frame transport: the application calls se_write    *)
(* and se_read, any response may come back                                 *)

Init ==
    /\ cnt = ZeroCnt
    /\ current_opcode = 0
    /\ stack = <<>>
    /\ ret = NoRet
    /\ bus = <<>>
    /\ rd = IdleRd
    /\ top = IdleTop
    /\ line = LineInit
    /\ chip = ChipOff
    /\ au = IdleAu
    /\ pf = <<>>

Next == CallWrite \/ CallRead \/ ReadAttempt

Spec == Init /\ [][Next]_vars

----------------------------------------------------------------------------
(* se_read: claims C1 to C5                                                *)

\* the attempts of the se_read call on record, and its last response
Attempted == rd.active /\ rd.tries > 0
LastResp == rd.last
\* how often counter k went up in the last attempt, and in the whole call
Step(k) == cnt[k] - rd.prev[k]
Total(k) == cnt[k] - rd.base[k]
\* TX requests on the wire since the call began
TxCount == Cardinality({i \in DOMAIN bus : bus[i] = Flag(IOFLAG_TX)})

\* se_read gives up after RetryBudget + 1 attempts, having counted each
Exhausted ==
    /\ rd.done /\ rd.rc = -1
    /\ rd.tries = RetryBudget + 1
    /\ Total("ln_retry") = RetryBudget + 1
    /\ Total("retry_out") = 1

\* C1 as stated: if every response of a se_read call is retryable (under 4
\* bytes, a length byte neither len+3 nor 4, or a CRC mismatch), the call
\* returns -1 after exactly 101 attempts, with ln_retry +101 and retry_out +1,
\* whatever the opcode.
C1_ExhaustionAnyOpcode ==
    (Attempted /\ rd.retryable) =>
        /\ rd.tries <= RetryBudget + 1
        /\ rd.done => Exhausted
        /\ rd.tries = RetryBudget + 1 => rd.done

\* C1, for every opcode other than Info: if every response of a se_read call
\* is retryable, the call returns -1 after exactly 101 calls to
\* se_read_response, not earlier and not later, with ln_retry incremented 101
\* times and retry_out once.
C1_Exhaustion ==
    (Attempted /\ rd.retryable /\ rd.op # OP_Info) =>
        /\ rd.tries <= RetryBudget + 1
        /\ rd.done => Exhausted
        /\ rd.tries = RetryBudget + 1 => rd.done

\* a call that saw two kinds of retryable response and ran out of attempts
C1_Witness ==
    /\ Attempted /\ rd.retryable /\ rd.op # OP_Info
    /\ Exhausted
    /\ Total("not_ready_n") > 0
    /\ Total("crc_errors") > 0

WholeFrames ==
    [len \in ReadLens |->
        {r \in Deliveries[len] :
            /\ r.actual >= 4
            /\ r.actual = r.buf[1]
            /\ Len(r.buf) = r.actual
            /\ se_crc16_chain(r.actual - 2, r.buf, <<0, 0>>)
                 = <<r.buf[r.actual - 1], r.buf[r.actual]>>}]

\* C3 as stated: for every opcode other than Info, a response whose length
\* byte is len+3 but whose CRC bytes are wrong, or whose byte count differs
\* from the length byte, is never accepted: crc_errors is incremented and the
\* attempt retried; se_read returns 0 only for a whole frame.
C3_CrcValidation ==
    (Attempted /\ rd.op # OP_Info) =>
        /\ (/\ LastResp.actual >= 4
            /\ LastResp.buf[1] = rd.len + 3
            /\ LastResp \notin WholeFrames[rd.len]) =>
               /\ rd.go = "try_again"
               /\ Step("crc_errors") = 1
        /\ (rd.done /\ rd.rc = 0) => LastResp \in WholeFrames[rd.len]

\* C4: for an opcode other than Info and len+3 # 4, a response of at least 4
\* bytes whose first byte is 4 makes se_read return -1 on that attempt,
\* whatever budget remains: no further TX request, ln_retry and retry_out
\* unchanged, len_error and len_error_two counted, and wdgtimeout counted if
\* and only if the second byte is 0xEE.
C4_TerminalError ==
    (/\ Attempted /\ rd.op # OP_Info /\ rd.len + 3 # 4
     /\ LastResp.actual >= 4 /\ LastResp.buf[1] = 4) =>
        /\ rd.done /\ rd.rc = -1
        /\ ~Running("se_read")
        /\ top.fn = "se_read" => (top.done /\ top.rc = -1)
        /\ TxCount = rd.tries
        /\ Step("ln_retry") = 0 /\ Step("retry_out") = 0
        /\ Step("len_error") = 1 /\ Step("len_error_two") = 1
        /\ Step("wdgtimeout") = (IF LastResp.buf[2] = 238 THEN 1 ELSE 0)

\* an error frame with code 0xEE ends a call on its second attempt
C4_Witness ==
    /\ Attempted /\ rd.op # OP_Info /\ rd.len + 3 # 4
    /\ LastResp.actual >= 4 /\ LastResp.buf[1] = 4 /\ LastResp.buf[2] = 238
    /\ rd.tries = 2 /\ rd.done
    /\ Step("wdgtimeout") = 1

\* C5 as stated: whenever se_read(data, len) returns 0, exactly len bytes
\* were written into data, and they are bytes 1..len of the accepted
\* response, whatever the opcode and the number of bytes received.
C5_PayloadCopy ==
    (Attempted /\ rd.done /\ rd.rc = 0) =>
        /\ rd.copied = rd.len
        /\ rd.data = SubSeq(LastResp.buf, 2, rd.len + 1)

\* IDLE flags on the wire since the call began
IdleCount == Cardinality({i \in DOMAIN bus : bus[i] = Flag(IOFLAG_IDLE)})

\* C15: within one se_read call every attempt puts exactly one TX flag on
\* the wire, and between attempts the host sends no wake, no command frame,
\* no IDLE and no SLEEP: while the call runs, the wire has carried one TX
\* flag per attempt and nothing else, so the command is not sent again.
C15_ExchangeStates ==
    (rd.active /\ top.fn = "se_read") =>
        /\ Len(bus) >= rd.tries
        /\ \A i \in 1..rd.tries : bus[i] = Flag(IOFLAG_TX)
        /\ ~rd.done => Len(bus) = rd.tries
        /\ \A i \in DOMAIN bus :
              /\ bus[i].t \notin {"wake", "cmd"}
              /\ bus[i] # Flag(IOFLAG_SLEEP)
              /\ bus[i] = Flag(IOFLAG_IDLE) => (i = rd.tries + 1 /\ rd.done)

\* a third attempt is awaited after two retryable errors
C15_Witness ==
    /\ rd.active /\ top.fn = "se_read" /\ ~rd.done
    /\ rd.tries = 2 /\ rd.go = "try_again"
    /\ Running("se_read")
    /\ bus = <<Flag(IOFLAG_TX), Flag(IOFLAG_TX)>>

\* C17: se_read sends the IDLE flag exactly once when it returns 0, as its
\* last emission, after the response was accepted and copied; it sends no
\* IDLE flag when it returns -1 (terminal chip error or retries exhausted),
\* nor while it is still trying.
C17_IdleOnSuccess ==
    (rd.active /\ top.fn = "se_read") =>
        /\ ~rd.done => IdleCount = 0
        /\ (rd.done /\ rd.rc = -1) => IdleCount = 0
        /\ (rd.done /\ rd.rc = 0) =>
              /\ IdleCount = 1
              /\ bus[Len(bus)] = Flag(IOFLAG_IDLE)
              /\ rd.go = "return_0"
              /\ rd.data = memcpy_tmp(LastResp.buf, LastResp.actual)

\* se_read returned 0 on its second attempt and sent IDLE last
C17_Witness ==
    /\ rd.active /\ top.fn = "se_read" /\ rd.done /\ rd.rc = 0
    /\ rd.tries = 2
    /\ bus = <<Flag(IOFLAG_TX), Flag(IOFLAG_TX), Flag(IOFLAG_IDLE)>>

----------------------------------------------------------------------------
(* Specification of se_crc16_chain alone: claim C9                         *)

\* the host at rest, common to the specifications of single functions
AtRest ==
    /\ cnt = ZeroCnt
    /\ current_opcode = 0
    /\ stack = <<>>
    /\ ret = NoRet
    /\ bus = <<>>
    /\ rd = IdleRd
    /\ top = IdleTop
    /\ line = LineInit
    /\ chip = ChipOff
    /\ au = IdleAu

host == <<cnt, current_opcode, stack, ret, bus, rd, top, line, chip, au>>

\* longest byte sequence given to se_crc16_chain
MaxCrcLen == 3
CrcBytes == {0, 1, 128, 165, 255}
CrcInputs == UNION {[1..n -> CrcBytes] : n \in 0..MaxCrcLen}

InitCrc ==
    /\ AtRest
    /\ \E s \in CrcInputs, k \in 0..MaxCrcLen :
         /\ k <= Len(s)
         /\ pf = [s |-> s, split |-> k, stage |-> "start",
                  whole |-> <<0, 0>>, part |-> <<0, 0>>]

\* uint8_t crc[2] = {0, 0}; se_crc16_chain(n, s, crc)
CrcWhole ==
    /\ pf.stage = "start"
    /\ pf' = [pf EXCEPT !.stage = "whole",
                        !.whole = se_crc16_chain(Len(pf.s), pf.s, <<0, 0>>)]
    /\ UNCHANGED host

\* uint8_t crc[2] = {0, 0}; se_crc16_chain(k, s, crc)
CrcFirst ==
    /\ pf.stage = "whole"
    /\ pf' = [pf EXCEPT !.stage = "first",
                        !.part = se_crc16_chain(pf.split, SubSeq(pf.s, 1, pf.split),
                                                <<0, 0>>)]
    /\ UNCHANGED host

\* se_crc16_chain(n - k, s + k, crc) on the crc the first call left
CrcSecond ==
    /\ pf.stage = "first"
    /\ pf' = [pf EXCEPT !.stage = "second",
                        !.part = se_crc16_chain(Len(pf.s) - pf.split,
                                                SubSeq(pf.s, pf.split + 1, Len(pf.s)),
                                                pf.part)]
    /\ UNCHANGED host

NextCrc == CrcWhole \/ CrcFirst \/ CrcSecond

SpecCrc == InitCrc /\ [][NextCrc]_vars

\* C9: for every byte sequence s and every split s = a ++ b, se_crc16_chain
\* over s from a zero register gives the same two bytes as se_crc16_chain
\* over a from zero followed by se_crc16_chain over b from the first call's
\* output; the register is two bytes, each within 0..255, at every stage.
C9_CrcChaining ==
    /\ pf.whole \in Byte \X Byte
    /\ pf.part \in Byte \X Byte
    /\ pf.stage = "second" => pf.part = pf.whole

\* a split into two non-empty parts whose first part leaves a register
\* other than zero, chained to the end
C9_Witness ==
    /\ pf.stage = "second"
    /\ pf.split > 0 /\ pf.split < Len(pf.s)
    /\ pf.whole # <<0, 0>>
    /\ se_crc16_chain(pf.split, pf.s, <<0, 0>>) # <<0, 0>>

----------------------------------------------------------------------------
(* Specification of the bit codec alone: claim C10                         *)

\* which of the 8 pulses the line softens: a pulse sent as 0x7F arrives as 0x7E
SoftMasks == {{}} \cup {{i} : i \in 1..8} \cup {1..8}

InitCodec ==
    /\ AtRest
    /\ \E b \in Byte, m \in SoftMasks :
         pf = [b |-> b, soft |-> m, stage |-> "start", pulses |-> <<>>,
               raw |-> <<>>, out |-> <<>>]

\* _send_bits(b)
CodecSend ==
    /\ pf.stage = "start"
    /\ pf' = [pf EXCEPT !.stage = "sent", !.pulses = send_bits(pf.b)]
    /\ UNCHANGED host

\* the 8 pulses come back through _read_byte, the soft ones as 0x7E
CodecReceive ==
    /\ pf.stage = "sent"
    /\ pf' = [pf EXCEPT !.stage = "received",
                        !.raw = [i \in 1..8 |->
                                    read_byte(IF i \in pf.soft /\ pf.pulses[i] = BIT1
                                              THEN 126 ELSE pf.pulses[i])]]
    /\ UNCHANGED host

\* deserialize(raw, 8, into, 1)
CodecDeserialize ==
    /\ pf.stage = "received"
    /\ pf' = [pf EXCEPT !.stage = "decoded", !.out = deserialize(pf.raw, 8, 1)]
    /\ UNCHANGED host

NextCodec == CodecSend \/ CodecReceive \/ CodecDeserialize

SpecCodec == InitCodec /\ [][NextCodec]_vars

\* C10: for every byte b, _send_bits(b) emits 8 pulses, least significant bit
\* first, 0x7D for a 0 and 0x7F for a 1, and deserialize of those 8 pulses
\* returns b, also when pulses that encode a 1 arrive as 0x7E.
C10_CodecRoundTrip ==
    /\ pf.stage # "start" =>
          /\ Len(pf.pulses) = 8
          /\ \A i \in 1..8 :
                pf.pulses[i] = (IF (pf.b \div (2 ^ (i - 1))) % 2 = 1 THEN 127 ELSE 125)
    /\ pf.stage = "decoded" => pf.out = <<pf.b>>

\* a byte with ones and zeros decoded after one of its ones arrived as 0x7E
C10_Witness ==
    /\ pf.stage = "decoded"
    /\ pf.b = 165
    /\ \E i \in pf.soft : pf.raw[i] = 126
    /\ \E i \in 1..8 : pf.raw[i] = 125

----------------------------------------------------------------------------
(* se_pick_nonce, se_checkmac, se_pair_unlock                              *)

\* sizeof(od), sizeof(numin)
RngDraws == {<<RngBuf(a, 32), RngBuf(b, 20)>> : a \in RngSeeds, b \in RngSeeds}

\* the host's TempKey with the two inputs hashed in the other order
nonce_tempkey_swapped(randout, num_in) ==
    Sha256(num_in \o randout \o <<22, 0, 0>>)

\* se_pick_nonce, lines 519-527: sha256(randout + num_in + b'\x16\0\0')
nonce_tempkey(randout, num_in) ==
    Sha256(randout \o num_in \o <<22, 0, 0>>)

\* se_checkmac, lines 661-681: the hash sent as req.resp
checkmac_resp(secret, tempkey, od) ==
    Sha256(secret \o tempkey \o SubSeq(od, 1, 4) \o SeqOf(8, 0)
           \o SubSeq(od, 5, 7) \o <<238>> \o SubSeq(od, 8, 11)
           \o <<1, 35>> \o SubSeq(od, 12, 13))

\* se_checkmac, lines 683-693: struct req {ch3[32], resp[32], od[13]}
checkmac_req(resp, od) == copyright_msg \o resp \o SubSeq(od, 1, 13)

\* se_checkmac, lines 697-709: the result, given what se_read1 returned
checkmac_result(rc) == IF rc # 0 THEN -2 ELSE 0

\* the loop of se_pair_unlock that goes on after a success
pair_unlock_next_nostop(rc, i) ==
    IF i + 1 < 3 THEN "loop" ELSE IF rc = 0 THEN "return_0" ELSE "return_m1"

\* se_pair_unlock, lines 626-633: after attempt i (from 0) returned rc
pair_unlock_next(rc, i) ==
    IF rc = 0 THEN "return_0"
    ELSE IF i + 1 < 3 THEN "loop"
    ELSE "return_m1"

\* se_sleep that sends the IDLE flag
se_sleep_idle == IOFLAG_IDLE

\* se_sleep, lines 437-440: the flag it sends
se_sleep == IOFLAG_SLEEP

\* the host puts items on the wire, as part of se_write
Sends(items, rand) ==
    /\ bus' = items
    /\ chip' = ChipAfter(chip, items, rand)
\* the host puts one more flag on the wire
SendsFlag(f) ==
    /\ bus' = Append(bus, Flag(f))
    /\ chip' = ChipAfter(chip, <<Flag(f)>>, <<>>)

\* the application calls se_checkmac(keynum, secret)
CheckmacArgs == {<<KEYNUM_pairing, pairing_secret>>, <<KEYNUM_pairing, wrong_secret>>,
                 <<3, other_secret>>, <<3, pairing_secret>>}

CheckmacFrame(keynum, secret) ==
    [fn |-> "se_checkmac", pc |-> "begin", keynum |-> keynum, secret |-> secret,
     od |-> <<>>, numin |-> <<>>]

CallCheckmac ==
    /\ stack = <<>>
    /\ \E a \in CheckmacArgs :
         /\ stack' = <<CheckmacFrame(a[1], a[2])>>
         /\ top' = NewTop("se_checkmac", a)
    /\ ret' = NoRet
    /\ bus' = <<>>
    /\ rd' = IdleRd
    /\ au' = IdleAu
    /\ pf' = IdleOps
    /\ UNCHANGED <<cnt, current_opcode, line, chip>>

\* se_checkmac, lines 651-659: rng_buffer twice, then the call of se_pick_nonce
CheckmacBegin ==
    /\ Running("se_checkmac") /\ TopFrame.pc = "begin"
    /\ \E d \in RngDraws :
         stack' = Append(ReplaceTop([TopFrame EXCEPT !.pc = "nonce", !.od = d[1],
                                                     !.numin = d[2]]),
                         [fn |-> "se_pick_nonce", pc |-> "begin", num_in |-> d[2]])
    /\ au' = [au EXCEPT !.cm = [IdleCm EXCEPT !.active = TRUE]]
    /\ ret' = NoRet
    /\ UNCHANGED <<cnt, current_opcode, bus, rd, top, line, chip, pf>>

\* se_pick_nonce, lines 504-509: se_write(OP_Nonce, 0, 0, num_in, 20), then
\* the call of se_read(randout, 32)
PickNonceBegin ==
    /\ Running("se_pick_nonce") /\ TopFrame.pc = "begin"
    /\ current_opcode' = se_write_opcode(OP_Nonce)
    /\ \E rand \in RandChoices :
         Sends(se_write_emits(OP_Nonce, 0, 0, TopFrame.num_in), rand)
    /\ stack' = Append(ReplaceTop([TopFrame EXCEPT !.pc = "read"]), ReadFrame(32))
    /\ rd' = [NewRd(32) EXCEPT !.op = OP_Nonce]
    /\ ret' = NoRet
    /\ UNCHANGED <<cnt, top, line, au, pf>>

\* se_pick_nonce, lines 510-529: se_sleep(), then -1 or the hash and 0
PickNonceAfterRead ==
    /\ Running("se_pick_nonce") /\ TopFrame.pc = "read" /\ ret.valid
    /\ SendsFlag(se_sleep)
    /\ IF ret.rc < 0
       THEN Returned(Ret(-1, <<>>))
       ELSE Returned(Ret(0, nonce_tempkey(ret.data, TopFrame.num_in)))
    /\ UNCHANGED <<cnt, current_opcode, rd, line, au, pf>>

\* se_checkmac, lines 659-696: -1 if se_pick_nonce failed; else the hash, the
\* request, se_write(OP_CheckMac, 0x01, keynum, req, 77) and the call of se_read1
CheckmacAfterNonce ==
    /\ Running("se_checkmac") /\ TopFrame.pc = "nonce" /\ ret.valid
    /\ LET f    == TopFrame
           seen == [au EXCEPT !.cm.nonce_rc = ret.rc, !.cm.nonce_go = rd.go]
       IN IF ret.rc < 0
          THEN /\ Returned(Ret(-1, <<>>))
               /\ au' = [seen EXCEPT !.cm.done = TRUE, !.cm.rc = -1]
               /\ UNCHANGED <<current_opcode, bus, chip, rd>>
          ELSE /\ current_opcode' = se_write_opcode(OP_CheckMac)
               /\ \E rand \in RandChoices :
                    Sends(se_write_emits(OP_CheckMac, 1, f.keynum,
                                         checkmac_req(checkmac_resp(f.secret, ret.data, f.od),
                                                      f.od)),
                          rand)
               /\ stack' = Append(ReplaceTop([f EXCEPT !.pc = "status"]), ReadFrame(1))
               /\ rd' = [NewRd(1) EXCEPT !.op = OP_CheckMac]
               /\ ret' = NoRet
               /\ au' = seen
               /\ top' = top
    /\ UNCHANGED <<cnt, line, pf>>

\* se_checkmac, lines 696-709: se_read1 returned; se_sleep(); -2 or 0
CheckmacAfterStatus ==
    /\ Running("se_checkmac") /\ TopFrame.pc = "status" /\ ret.valid
    /\ LET rc == se_read1(ret)
           v  == checkmac_result(rc)
       IN /\ SendsFlag(se_sleep)
          /\ Returned(Ret(v, <<>>))
          /\ au' = [au EXCEPT !.cm.status_rc = ret.rc, !.cm.status_go = rd.go,
                              !.cm.status = rc, !.cm.done = TRUE, !.cm.rc = v]
    /\ UNCHANGED <<cnt, current_opcode, rd, line, pf>>

\* the application calls se_pair_unlock()
CallPairUnlock ==
    /\ stack = <<>>
    /\ stack' = <<[fn |-> "se_pair_unlock", pc |-> "loop", i |-> 0]>>
    /\ top' = NewTop("se_pair_unlock", <<>>)
    /\ ret' = NoRet
    /\ bus' = <<>>
    /\ rd' = IdleRd
    /\ au' = [IdleAu EXCEPT !.pu.active = TRUE]
    /\ pf' = IdleOps
    /\ UNCHANGED <<cnt, current_opcode, line, chip>>

\* se_pair_unlock, line 627: se_checkmac(KEYNUM_pairing, rom_secrets->pairing_secret)
PairUnlockLoop ==
    /\ Running("se_pair_unlock") /\ TopFrame.pc = "loop"
    /\ stack' = Append(ReplaceTop([TopFrame EXCEPT !.pc = "checkmac"]),
                       CheckmacFrame(KEYNUM_pairing, pairing_secret))
    /\ ret' = NoRet
    /\ UNCHANGED <<cnt, current_opcode, bus, rd, top, line, chip, au, pf>>

\* se_pair_unlock, lines 628-633: se_checkmac returned
PairUnlockAfter ==
    /\ Running("se_pair_unlock") /\ TopFrame.pc = "checkmac" /\ ret.valid
    /\ LET f    == TopFrame
           nxt  == pair_unlock_next(ret.rc, f.i)
           seen == [au EXCEPT !.pu.rcs = Append(@, ret.rc)]
       IN IF nxt = "loop"
          THEN /\ stack' = ReplaceTop([f EXCEPT !.pc = "loop", !.i = @ + 1])
               /\ ret' = NoRet
               /\ au' = seen
               /\ top' = top
          ELSE LET v == IF nxt = "return_0" THEN 0 ELSE -1
               IN /\ Returned(Ret(v, <<>>))
                  /\ au' = [seen EXCEPT !.pu.done = TRUE, !.pu.rc = v]
    /\ UNCHANGED <<cnt, current_opcode, bus, rd, line, chip, pf>>

\* the steps inside se_checkmac
CheckmacSteps ==
    \/ CheckmacBegin
    \/ PickNonceBegin
    \/ ReadAttempt
    \/ PickNonceAfterRead
    \/ CheckmacAfterNonce
    \/ CheckmacAfterStatus

\* Specification of the authentication calls over a line that may fail
NextAuth ==
    \/ CallCheckmac
    \/ CallPairUnlock
    \/ PairUnlockLoop
    \/ PairUnlockAfter
    \/ CheckmacSteps

InitAuth ==
    /\ cnt = ZeroCnt
    /\ current_opcode = 0
    /\ stack = <<>>
    /\ ret = NoRet
    /\ bus = <<>>
    /\ rd = IdleRd
    /\ top = IdleTop
    /\ line = LineInitAuth
    /\ chip = ChipOff
    /\ au = IdleAu
    /\ pf = IdleOps

SpecAuth == InitAuth /\ [][NextAuth]_vars

\* Specification of se_checkmac over a lossless line and the chip
InitChip ==
    /\ cnt = ZeroCnt
    /\ current_opcode = 0
    /\ stack = <<>>
    /\ ret = NoRet
    /\ bus = <<>>
    /\ rd = IdleRd
    /\ top = IdleTop
    /\ line = LineLossless
    /\ chip = ChipOn
    /\ au = IdleAu
    /\ pf = IdleOps

NextChip == CallCheckmac \/ CheckmacSteps

SpecChip == InitChip /\ [][NextChip]_vars

----------------------------------------------------------------------------
(* se_checkmac and se_pair_unlock: claims C6 to C8                         *)

\* C6 as stated: se_checkmac returns -1 whenever the Nonce read or the
\* CheckMac status read fails at transport level, returns -2 only when the
\* chip delivered a valid nonzero status byte, and returns 0 only when the
\* status byte is 0.
C6_ResultCodes ==
    au.cm.done =>
        /\ (au.cm.nonce_rc = -1 \/ au.cm.status_rc = -1) => au.cm.rc = -1
        /\ au.cm.rc = -2 => (au.cm.status_rc = 0 /\ au.cm.status \in 1..255)
        /\ au.cm.rc = 0 => (au.cm.status_rc = 0 /\ au.cm.status = 0)

C8_PairUnlock ==
    au.pu.active =>
        LET rcs == au.pu.rcs
        IN /\ Len(rcs) <= 3
           /\ \A i \in 1..Len(rcs) : rcs[i] \in {0, -1, -2}
           /\ \A i \in 1..(Len(rcs) - 1) : rcs[i] # 0
           /\ (\E i \in 1..Len(rcs) : rcs[i] = 0) => au.pu.done
           /\ \A k \in 1..Len(stack) :
                 stack[k].fn = "se_checkmac" =>
                    /\ stack[k].keynum = KEYNUM_pairing
                    /\ stack[k].secret = pairing_secret
           /\ au.pu.done =>
                 /\ au.pu.rc \in {0, -1}
                 /\ top.done /\ top.rc = au.pu.rc
                 /\ au.pu.rc = 0 <=> (\E i \in 1..Len(rcs) : rcs[i] = 0)
                 /\ au.pu.rc = -1 =>
                       (Len(rcs) = 3 /\ \A i \in 1..3 : rcs[i] \in {-1, -2})

\* se_pair_unlock succeeded on the third call, after a -1 and a -2
C8_Witness ==
    /\ au.pu.active /\ au.pu.done /\ au.pu.rc = 0
    /\ au.pu.rcs = <<-1, -2, 0>>

----------------------------------------------------------------------------
(* Specification of the outbound wire, one item per emitting call: claims  *)
(* C12 and C16                                                             *)

\* _send_serialized(buf, len): which buffer, and its bytes
Ser(buf, bytes) == [t |-> "ser", buf |-> buf, bytes |-> bytes]

\* the header struct as the bytes _send_serialized reads from it
known_bytes(k) == <<k.ioflag, k.framed_len, k.op, k.p1, k.p2_lsb, k.p2_msb>>

\* se_write without the call of se_wake
se_write_wire_nowake(opcode, p1, p2, data) ==
    LET hdr  == known_bytes(known(opcode, p1, p2, Len(data)))
        crc0 == se_crc16_chain(5, SubSeq(hdr, 2, 6), <<0, 0>>)
        crc  == IF Len(data) # 0 THEN se_crc16_chain(Len(data), data, crc0) ELSE crc0
    IN <<Ser("known", hdr)>>
       \o (IF Len(data) # 0 THEN <<Ser("data", data)>> ELSE <<>>)
       \o <<Ser("crc", crc)>>

\* se_write (lines 300-323), call by call: se_wake, the header, the CRC
\* chained from framed_len onwards, the body if data_len # 0, the CRC bytes
se_write_wire(opcode, p1, p2, data) ==
    LET hdr  == known_bytes(known(opcode, p1, p2, Len(data)))
        crc0 == se_crc16_chain(5, SubSeq(hdr, 2, 6), <<0, 0>>)
        crc  == IF Len(data) # 0 THEN se_crc16_chain(Len(data), data, crc0) ELSE crc0
    IN <<Wake, Ser("known", hdr)>>
       \o (IF Len(data) # 0 THEN <<Ser("data", data)>> ELSE <<>>)
       \o <<Ser("crc", crc)>>

\* the number of operations in one run
MaxOps == 3

\* body lengths of the commands written: data_len is a uint8_t
FrameLens == {0, 1, 20, 64, 248, 249, 255}

\* opcode, p1, p2 of the commands written
FrameHeads == {<<OP_Nonce, 0, 0>>, <<OP_Write, 130, 264>>}

FrameCmds ==
    {<<h[1], h[2], h[3], SeqOf(n, 165)>> : h \in FrameHeads, n \in FrameLens}

\* what se_write sends for each of the commands
WireOf == [c \in FrameCmds |-> se_write_wire(c[1], c[2], c[3], c[4])]

InitFrame ==
    /\ AtRest
    /\ pf = [wire |-> <<>>, ops |-> 0, last |-> <<>>]

\* se_write(opcode, p1, p2, data, data_len)
FrameWrite ==
    /\ pf.ops < MaxOps
    /\ \E c \in FrameCmds :
         pf' = [wire |-> pf.wire \o WireOf[c], ops |-> pf.ops + 1, last |-> c]
    /\ UNCHANGED host

\* se_sleep(), se_reset_chip()
FrameSleep ==
    /\ pf.ops < MaxOps
    /\ pf' = [wire |-> Append(pf.wire, Flag(IOFLAG_SLEEP)), ops |-> pf.ops + 1,
              last |-> <<>>]
    /\ UNCHANGED host

\* se_idle(), se_keep_alive()
FrameIdle ==
    /\ pf.ops < MaxOps
    /\ pf' = [wire |-> Append(pf.wire, Flag(IOFLAG_IDLE)), ops |-> pf.ops + 1,
              last |-> <<>>]
    /\ UNCHANGED host

\* se_wake()
FrameWake ==
    /\ pf.ops < MaxOps
    /\ pf' = [wire |-> Append(pf.wire, Wake), ops |-> pf.ops + 1, last |-> <<>>]
    /\ UNCHANGED host

NextFrame == FrameWrite \/ FrameSleep \/ FrameIdle \/ FrameWake

SpecFrame == InitFrame /\ [][NextFrame]_vars

\* the bytes of the frame written last, from the CMD flag to the CRC
LastFrame ==
    LET n   == Len(pf.wire)
        k   == IF Len(pf.last[4]) # 0 THEN 3 ELSE 2
        seg == SubSeq(pf.wire, n - k + 1, n)
    IN IF k = 3 THEN seg[1].bytes \o seg[2].bytes \o seg[3].bytes
       ELSE seg[1].bytes \o seg[2].bytes

\* C12: for every se_write call with a body of data_len bytes, 0..255, the
\* framed_len byte of the header equals data_len + 7, the number of bytes
\* from framed_len through the two CRC bytes.
C12_FramedLen ==
    pf.last # <<>> =>
        /\ LastFrame[2] = Len(pf.last[4]) + 7
        /\ LastFrame[2] = Len(LastFrame) - 1

\* C16: every command frame on the wire is directly preceded by a wake
\* pulse, nothing in between, and se_write emits wake, the 6-byte header
\* that begins with the CMD flag, the body, the 2 CRC bytes, in that order.
C16_WakeFirst ==
    /\ \A i \in DOMAIN pf.wire :
         LET it == pf.wire[i] IN
         /\ (it.t = "ser" /\ it.buf = "known") =>
               /\ i > 1 /\ pf.wire[i - 1] = Wake
               /\ Len(it.bytes) = 6 /\ it.bytes[1] = IOFLAG_CMD
               /\ i < Len(pf.wire)
               /\ pf.wire[i + 1].t = "ser" /\ pf.wire[i + 1].buf \in {"data", "crc"}
         /\ (it.t = "ser" /\ it.buf = "data") =>
               /\ i > 1 /\ pf.wire[i - 1].t = "ser" /\ pf.wire[i - 1].buf = "known"
               /\ i < Len(pf.wire)
               /\ pf.wire[i + 1].t = "ser" /\ pf.wire[i + 1].buf = "crc"
         /\ (it.t = "ser" /\ it.buf = "crc") =>
               /\ Len(it.bytes) = 2
               /\ i > 1 /\ pf.wire[i - 1].t = "ser"
               /\ pf.wire[i - 1].buf \in {"known", "data"}
    /\ pf.last # <<>> =>
         LET n == Len(pf.wire)
             k == IF Len(pf.last[4]) # 0 THEN 4 ELSE 3
         IN /\ n >= k
            /\ pf.wire[n - k + 1] = Wake
            /\ pf.wire[n - k + 2].t = "ser" /\ pf.wire[n - k + 2].buf = "known"
            /\ pf.wire[n - k + 2].bytes[3] = pf.last[1]
            /\ k = 4 => pf.wire[n - 1] = Ser("data", pf.last[4])
            /\ pf.wire[n].t = "ser" /\ pf.wire[n].buf = "crc"

\* a command with a body is written right after the chip was sent to sleep
C16_Witness ==
    /\ pf.ops = 2 /\ pf.last # <<>> /\ Len(pf.last[4]) = 64
    /\ Len(pf.wire) = 5
    /\ pf.wire[1] = Flag(IOFLAG_SLEEP)
    /\ pf.wire[2] = Wake

----------------------------------------------------------------------------
(* se_gendig_slot (lines 532-577), se_is_correct_tempkey (582-618),        *)
(* se_checkmac_hard (716-735), se_encrypted_write32 (737-796),             *)
(* se_encrypted_write (798-819), se_config_read (471-490)                  *)

\* se_gendig_slot, lines 562-574: the digest the host computes
gendig_digest(slot_contents, slot_num, tempkey) ==
    Sha256(slot_contents \o <<OP_GenDig, 2, U8(slot_num), 0, 238, 1, 35>>
           \o SeqOf(25, 0) \o tempkey)

\* se_gendig_slot, lines 544-545 and 551-554: what follows a result
gendig_after_nonce(rc) == IF rc < 0 THEN "return_m1" ELSE "go_on"
gendig_after_status(rc) == IF rc # 0 THEN "return_m1" ELSE "go_on"

\* se_is_correct_tempkey, lines 585-588: the mode byte
mac_mode == 65      \* (1<<6) | (0<<2) | (0<<1) | (1<<0)

\* se_is_correct_tempkey, lines 599-615: the hash the host computes
mac_actual(expected_tempkey) ==
    Sha256(pairing_secret \o expected_tempkey
           \o <<OP_MAC, mac_mode, KEYNUM_pairing, 0>> \o SeqOf(8, 0) \o SeqOf(3, 0)
           \o <<238>>
           \o SubSeq(se_serial_number, 5, 8) \o SubSeq(se_serial_number, 1, 4))

\* check_equal(a, b, n): whether the first n bytes agree
check_equal(a, b, n) == SubSeq(a, 1, n) = SubSeq(b, 1, n)

\* se_is_correct_tempkey, lines 595-617: the result, given what se_read
\* returned; 1 is true, 0 is false
is_correct_tempkey_result(rc, resp, expected_tempkey) ==
    IF rc < 0 THEN 0
    ELSE IF check_equal(mac_actual(expected_tempkey), resp, 32) THEN 1 ELSE 0

\* se_checkmac_hard that goes on to the MAC check whatever se_gendig_slot
\* returned
checkmac_hard_after_gendig_always(rc) == "go_on"

\* se_checkmac_hard, lines 724-727: after se_gendig_slot returned rc
checkmac_hard_after_gendig(rc) == IF rc < 0 THEN "return_m1" ELSE "go_on"

\* se_checkmac_hard, lines 729-734: after se_is_correct_tempkey returned ok
checkmac_hard_result(ok) == IF ok = 0 THEN -2 ELSE 0

\* se_encrypted_write32, lines 748-750: after se_pair_unlock returned rc
write32_after_unlock(rc) == IF rc < 0 THEN "return_m1" ELSE "go_on"

\* se_encrypted_write32 that goes on to the Write when se_gendig_slot failed
write32_after_gendig_always(rc) == "go_on"

\* se_encrypted_write32, lines 753-755: after se_gendig_slot returned rc
write32_after_gendig(rc) == IF rc < 0 THEN "return_m1" ELSE "go_on"

\* se_encrypted_write32, lines 760-762: body[i] = data[i] ^ digest[i]
write32_cipher(data, digest) == [i \in 1..32 |-> BitXor(data[i], digest[i])]

\* se_encrypted_write32, lines 775-786: p1, p2_lsb, p2_msb and the MAC
write32_p1 == 130       \* 0x80 | 2
write32_p2_lsb(data_slot) == U8(data_slot * 8)
write32_p2_msb(blk) == U8(blk)
write32_mac(digest, data_slot, blk, data) ==
    Sha256(digest
           \o <<OP_Write, write32_p1, write32_p2_lsb(data_slot), write32_p2_msb(blk),
                238, 1, 35>>
           \o SeqOf(25, 0) \o data)

\* se_encrypted_write32, lines 789-795: the result, given what se_read1 returned
write32_result(rc) == IF rc # 0 THEN -1 ELSE 0

\* the byte at data[i] (from 0); past the end of the caller's buffer the
\* memory holds something else
PastEnd == 170
ByteAt(data, i) == IF i < Len(data) THEN data[i + 1] ELSE PastEnd

\* the block copy of se_encrypted_write that always takes 32 bytes
write_tmp_whole(data, blk, len) ==
    [i \in 1..32 |-> ByteAt(data, 32 * blk + i - 1)]

\* se_encrypted_write, lines 807-811: here = MIN(32, len); tmp[32] = {0};
\* memcpy(tmp, data + 32*blk, here); len is what is left to write
write_tmp(data, blk, len) ==
    LET here == Min(32, len)
    IN [i \in 1..32 |-> IF i <= here THEN ByteAt(data, 32 * blk + i - 1) ELSE 0]

\* se_encrypted_write, lines 806 and 813-818: the loop condition at entry,
\* and what follows block blk when se_encrypted_write32 returned rv
write_enters(blk, len) == blk < 3 /\ len > 0
write_loop(blk, len, rv) ==
    IF rv < 0 THEN "return_m1"
    ELSE IF write_enters(blk + 1, len - 32) THEN "loop" ELSE "return_0"

\* se_config_read that reads on after a block failed
config_read_loop_always(blk, rc) ==
    IF blk + 1 < 4 THEN "loop" ELSE "out"

\* se_config_read, lines 475-485: what follows the read of block blk
config_read_loop(blk, rc) ==
    IF rc < 0 THEN "out_m1"
    ELSE IF blk + 1 < 4 THEN "loop" ELSE "out"

\* whether the command sent last has this opcode
LastCmdIs(wire, op) == Len(wire) >= 2 /\ wire[2].t = "cmd" /\ wire[2].hdr.op = op

\* the call the application makes first after reset: the runs of the
\* protocol operations are one call long
FirstCall == stack = <<>> /\ top.fn = "none"

\* the application calls se_pick_nonce(num_in, tempkey)
CallPickNonce ==
    /\ FirstCall
    /\ \E s \in RngSeeds :
         /\ stack' = <<[fn |-> "se_pick_nonce", pc |-> "begin", num_in |-> RngBuf(s, 20)]>>
         /\ top' = NewTop("se_pick_nonce", <<s>>)
    /\ ret' = NoRet
    /\ bus' = <<>>
    /\ rd' = IdleRd
    /\ au' = IdleAu
    /\ pf' = IdleOps
    /\ UNCHANGED <<cnt, current_opcode, line, chip>>

GendigFrame(slot_num, slot_contents) ==
    [fn |-> "se_gendig_slot", pc |-> "begin", slot_num |-> slot_num,
     slot_contents |-> slot_contents, tempkey |-> <<>>]

\* the arguments of se_gendig_slot and se_checkmac_hard: a slot and what the
\* host takes for its contents
SlotArgs == {<<3, other_secret>>, <<3, wrong_secret>>}

\* the application calls se_gendig_slot(slot_num, slot_contents, digest)
CallGendig ==
    /\ FirstCall
    /\ \E a \in SlotArgs :
         /\ stack' = <<GendigFrame(a[1], a[2])>>
         /\ top' = NewTop("se_gendig_slot", a)
    /\ ret' = NoRet
    /\ bus' = <<>>
    /\ rd' = IdleRd
    /\ au' = IdleAu
    /\ pf' = IdleOps
    /\ UNCHANGED <<cnt, current_opcode, line, chip>>

\* se_gendig_slot, lines 543-544: rng_buffer(num_in), the call of se_pick_nonce
GendigBegin ==
    /\ Running("se_gendig_slot") /\ TopFrame.pc = "begin"
    /\ \E s \in RngSeeds :
         stack' = Append(ReplaceTop([TopFrame EXCEPT !.pc = "nonce"]),
                         [fn |-> "se_pick_nonce", pc |-> "begin", num_in |-> RngBuf(s, 20)])
    /\ pf' = [pf EXCEPT !.gd = IdleGd]
    /\ ret' = NoRet
    /\ UNCHANGED <<cnt, current_opcode, bus, rd, top, line, chip, au>>

\* se_gendig_slot, lines 545-551: -1 if se_pick_nonce failed; else
\* se_write(OP_GenDig, 0x2, slot_num, NULL, 0) and the call of se_read1
GendigAfterNonce ==
    /\ Running("se_gendig_slot") /\ TopFrame.pc = "nonce" /\ ret.valid
    /\ LET f    == TopFrame
           seen == [pf EXCEPT !.gd.nonce_rc = ret.rc]
       IN IF gendig_after_nonce(ret.rc) = "return_m1"
          THEN /\ Returned(Ret(-1, <<>>))
               /\ pf' = [seen EXCEPT !.gd.done = TRUE, !.gd.rc = -1]
               /\ UNCHANGED <<current_opcode, bus, chip, rd>>
          ELSE /\ current_opcode' = se_write_opcode(OP_GenDig)
               /\ Sends(se_write_emits(OP_GenDig, 2, f.slot_num, <<>>), <<>>)
               /\ stack' = Append(ReplaceTop([f EXCEPT !.pc = "status",
                                                       !.tempkey = ret.data]),
                                  ReadFrame(1))
               /\ rd' = [NewRd(1) EXCEPT !.op = OP_GenDig]
               /\ ret' = NoRet
               /\ pf' = seen
               /\ top' = top
    /\ UNCHANGED <<cnt, line, au>>

\* se_gendig_slot, lines 551-576: se_read1 returned; se_sleep(); -1, or the
\* digest and 0
GendigAfterStatus ==
    /\ Running("se_gendig_slot") /\ TopFrame.pc = "status" /\ ret.valid
    /\ LET f  == TopFrame
           rc == se_read1(ret)
           v  == IF gendig_after_status(rc) = "return_m1"
                 THEN Ret(-1, <<>>)
                 ELSE Ret(0, gendig_digest(f.slot_contents, f.slot_num, f.tempkey))
       IN /\ SendsFlag(se_sleep)
          /\ Returned(v)
          /\ pf' = [pf EXCEPT !.gd.status = rc, !.gd.done = TRUE, !.gd.rc = v.rc]
    /\ UNCHANGED <<cnt, current_opcode, rd, line, au>>

\* the tempkey values se_is_correct_tempkey is asked about
TempkeyArgs == {SeqOf(32, 7)}

\* the application calls se_is_correct_tempkey(expected_tempkey)
CallIsCorrectTempkey ==
    /\ FirstCall
    /\ \E e \in TempkeyArgs :
         /\ stack' = <<[fn |-> "se_is_correct_tempkey", pc |-> "begin", expected |-> e]>>
         /\ top' = NewTop("se_is_correct_tempkey", <<e>>)
    /\ ret' = NoRet
    /\ bus' = <<>>
    /\ rd' = IdleRd
    /\ au' = IdleAu
    /\ pf' = IdleOps
    /\ UNCHANGED <<cnt, current_opcode, line, chip>>

\* se_is_correct_tempkey, lines 593-594: se_write(OP_MAC, mode,
\* KEYNUM_pairing, NULL, 0) and the call of se_read(resp, 32)
IsCorrectTempkeyBegin ==
    /\ Running("se_is_correct_tempkey") /\ TopFrame.pc = "begin"
    /\ current_opcode' = se_write_opcode(OP_MAC)
    /\ Sends(se_write_emits(OP_MAC, mac_mode, KEYNUM_pairing, <<>>), <<>>)
    /\ stack' = Append(ReplaceTop([TopFrame EXCEPT !.pc = "read"]), ReadFrame(32))
    /\ rd' = [NewRd(32) EXCEPT !.op = OP_MAC]
    /\ ret' = NoRet
    /\ pf' = [pf EXCEPT !.ict = IdleIct]
    /\ UNCHANGED <<cnt, top, line, au>>

\* se_is_correct_tempkey, lines 595-617: se_sleep(); false if the read
\* failed, else whether the chip's MAC is the one the host computes
IsCorrectTempkeyAfterRead ==
    /\ Running("se_is_correct_tempkey") /\ TopFrame.pc = "read" /\ ret.valid
    /\ LET ok == is_correct_tempkey_result(ret.rc, ret.data, TopFrame.expected)
       IN /\ SendsFlag(se_sleep)
          /\ Returned(Ret(ok, <<>>))
          /\ pf' = [pf EXCEPT !.ict = [done |-> TRUE, read_rc |-> ret.rc, ok |-> ok]]
    /\ UNCHANGED <<cnt, current_opcode, rd, line, au>>

\* the application calls se_checkmac_hard(keynum, secret)
CallCheckmacHard ==
    /\ FirstCall
    /\ \E a \in SlotArgs :
         /\ stack' = <<[fn |-> "se_checkmac_hard", pc |-> "begin", keynum |-> a[1],
                        secret |-> a[2]]>>
         /\ top' = NewTop("se_checkmac_hard", a)
    /\ ret' = NoRet
    /\ bus' = <<>>
    /\ rd' = IdleRd
    /\ au' = IdleAu
    /\ pf' = [IdleOps EXCEPT !.ch.active = TRUE]
    /\ UNCHANGED <<cnt, current_opcode, line, chip>>

\* se_checkmac_hard, line 724: the call of se_gendig_slot(keynum, secret, digest)
CheckmacHardBegin ==
    /\ Running("se_checkmac_hard") /\ TopFrame.pc = "begin"
    /\ stack' = Append(ReplaceTop([TopFrame EXCEPT !.pc = "gendig"]),
                       GendigFrame(TopFrame.keynum, TopFrame.secret))
    /\ ret' = NoRet
    /\ UNCHANGED <<cnt, current_opcode, bus, rd, top, line, chip, au, pf>>

\* se_checkmac_hard, lines 725-729: -1 if se_gendig_slot failed, else the
\* call of se_is_correct_tempkey(digest)
CheckmacHardAfterGendig ==
    /\ Running("se_checkmac_hard") /\ TopFrame.pc = "gendig" /\ ret.valid
    /\ LET seen == [pf EXCEPT !.ch.gd_rc = ret.rc]
       IN IF checkmac_hard_after_gendig(ret.rc) = "return_m1"
          THEN /\ Returned(Ret(-1, <<>>))
               /\ pf' = [seen EXCEPT !.ch.done = TRUE, !.ch.rc = -1,
                                     !.ch.mac_sent = LastCmdIs(bus, OP_MAC)]
          ELSE /\ stack' = Append(ReplaceTop([TopFrame EXCEPT !.pc = "ict"]),
                                  [fn |-> "se_is_correct_tempkey", pc |-> "begin",
                                   expected |-> ret.data])
               /\ ret' = NoRet
               /\ pf' = seen
               /\ top' = top
    /\ UNCHANGED <<cnt, current_opcode, bus, rd, line, chip, au>>

\* se_checkmac_hard, lines 729-734: -2 if se_is_correct_tempkey said no, else 0
CheckmacHardAfterIct ==
    /\ Running("se_checkmac_hard") /\ TopFrame.pc = "ict" /\ ret.valid
    /\ LET v == checkmac_hard_result(ret.rc)
       IN /\ Returned(Ret(v, <<>>))
          /\ pf' = [pf EXCEPT !.ch.ok = ret.rc, !.ch.done = TRUE, !.ch.rc = v,
                              !.ch.mac_sent = LastCmdIs(bus, OP_MAC)]
    /\ UNCHANGED <<cnt, current_opcode, bus, rd, line, chip, au>>

\* the data the application writes: bytes that are not zero
WriteData(n) == [i \in 1..n |-> 1 + ((7 * i) % 251)]

Write32Frame(data_slot, blk, write_kn, write_key, data) ==
    [fn |-> "se_encrypted_write32", pc |-> "begin", data_slot |-> data_slot,
     blk |-> blk, write_kn |-> write_kn, write_key |-> write_key, data |-> data]

\* the slot written, and the key slot with what the host takes for its key
WriteSlot == 8
WriteKeys == {<<3, other_secret>>, <<3, wrong_secret>>}

\* the application calls se_encrypted_write32(data_slot, blk, write_kn,
\* write_key, data)
CallWrite32 ==
    /\ FirstCall
    /\ \E k \in WriteKeys, blk \in {0, 2} :
         /\ stack' = <<Write32Frame(WriteSlot, blk, k[1], k[2], WriteData(32))>>
         /\ top' = NewTop("se_encrypted_write32", <<blk, k[2]>>)
    /\ ret' = NoRet
    /\ bus' = <<>>
    /\ rd' = IdleRd
    /\ au' = IdleAu
    /\ pf' = IdleOps
    /\ UNCHANGED <<cnt, current_opcode, line, chip>>

\* se_encrypted_write32, line 748: the call of se_pair_unlock()
Write32Begin ==
    /\ Running("se_encrypted_write32") /\ TopFrame.pc = "begin"
    /\ stack' = Append(ReplaceTop([TopFrame EXCEPT !.pc = "unlock"]),
                       [fn |-> "se_pair_unlock", pc |-> "loop", i |-> 0])
    /\ ret' = NoRet
    /\ au' = [IdleAu EXCEPT !.pu.active = TRUE]
    /\ pf' = [pf EXCEPT !.w32 = [IdleW32 EXCEPT !.active = TRUE,
                                                !.blk = TopFrame.blk,
                                                !.data = TopFrame.data]]
    /\ UNCHANGED <<cnt, current_opcode, bus, rd, top, line, chip>>

\* se_encrypted_write32, lines 749-753: -1 if se_pair_unlock failed, else
\* the call of se_gendig_slot(write_kn, write_key, digest)
Write32AfterUnlock ==
    /\ Running("se_encrypted_write32") /\ TopFrame.pc = "unlock" /\ ret.valid
    /\ LET seen == [pf EXCEPT !.w32.pu_rc = ret.rc]
       IN IF write32_after_unlock(ret.rc) = "return_m1"
          THEN /\ Returned(Ret(-1, <<>>))
               /\ pf' = [seen EXCEPT !.w32.done = TRUE, !.w32.rc = -1,
                                     !.w32.write_sent = LastCmdIs(bus, OP_Write)]
          ELSE /\ stack' = Append(ReplaceTop([TopFrame EXCEPT !.pc = "gendig"]),
                                  GendigFrame(TopFrame.write_kn, TopFrame.write_key))
               /\ ret' = NoRet
               /\ pf' = seen
               /\ top' = top
    /\ UNCHANGED <<cnt, current_opcode, bus, rd, line, chip, au>>

\* se_encrypted_write32, lines 754-790: -1 if se_gendig_slot failed; else
\* the ciphertext, the MAC, se_write(OP_Write, p1, p2, body, 64) and the call
\* of se_read1
Write32AfterGendig ==
    /\ Running("se_encrypted_write32") /\ TopFrame.pc = "gendig" /\ ret.valid
    /\ LET f      == TopFrame
           \* digest[32] holds what the stack held if nothing was written to it
           digest == IF ret.data = <<>> THEN SeqOf(32, PastEnd) ELSE ret.data
           body   == write32_cipher(f.data, digest)
                     \o write32_mac(digest, f.data_slot, f.blk, f.data)
           p2     == write32_p2_msb(f.blk) * 256 + write32_p2_lsb(f.data_slot)
           items  == se_write_emits(OP_Write, write32_p1, p2, body)
           seen   == [pf EXCEPT !.w32.gd_rc = ret.rc]
       IN IF write32_after_gendig(ret.rc) = "return_m1"
          THEN /\ Returned(Ret(-1, <<>>))
               /\ pf' = [seen EXCEPT !.w32.done = TRUE, !.w32.rc = -1,
                                     !.w32.write_sent = LastCmdIs(bus, OP_Write)]
               /\ UNCHANGED <<current_opcode, bus, chip, rd>>
          ELSE /\ current_opcode' = se_write_opcode(OP_Write)
               /\ Sends(items, <<>>)
               /\ stack' = Append(ReplaceTop([f EXCEPT !.pc = "status"]), ReadFrame(1))
               /\ rd' = [NewRd(1) EXCEPT !.op = OP_Write]
               /\ ret' = NoRet
               /\ pf' = [seen EXCEPT
                           !.w32.plain = [i \in 1..32 |->
                                            BitXor(items[2].body[i], digest[i])]]
               /\ top' = top
    /\ UNCHANGED <<cnt, line, au>>

\* se_encrypted_write32, lines 790-795: se_read1 returned; se_sleep(); -1 or 0
Write32AfterStatus ==
    /\ Running("se_encrypted_write32") /\ TopFrame.pc = "status" /\ ret.valid
    /\ LET rc == se_read1(ret)
           v  == write32_result(rc)
       IN /\ SendsFlag(se_sleep)
          /\ Returned(Ret(v, <<>>))
          /\ pf' = [pf EXCEPT !.w32.status = rc, !.w32.done = TRUE, !.w32.rc = v,
                              !.w32.stored = chip.wrote,
                              !.w32.write_sent = LastCmdIs(bus, OP_Write)]
    /\ UNCHANGED <<cnt, current_opcode, rd, line, au>>

\* the lengths the application writes
WriteLens == {0, 1, 32, 33, 96}

\* the call of se_encrypted_write32 for block blk, len bytes left to write
WriteBlock(f, blk, len) ==
    Append(ReplaceTop([f EXCEPT !.pc = "block", !.blk = blk, !.len = len]),
           Write32Frame(f.data_slot, blk, f.write_kn, f.write_key,
                        write_tmp(f.data, blk, len)))

\* the application calls se_encrypted_write(data_slot, write_kn, write_key,
\* data, len)
CallEncryptedWrite ==
    /\ FirstCall
    /\ \E k \in WriteKeys, n \in WriteLens :
         /\ stack' = <<[fn |-> "se_encrypted_write", pc |-> "begin",
                        data_slot |-> WriteSlot, write_kn |-> k[1],
                        write_key |-> k[2], data |-> WriteData(n), len |-> n,
                        blk |-> 0]>>
         /\ top' = NewTop("se_encrypted_write", <<n, k[2]>>)
    /\ ret' = NoRet
    /\ bus' = <<>>
    /\ rd' = IdleRd
    /\ au' = IdleAu
    /\ pf' = [IdleOps EXCEPT !.ew.active = TRUE]
    /\ UNCHANGED <<cnt, current_opcode, line, chip>>

\* se_encrypted_write, lines 806-811: 0 if the loop is not entered, else the
\* first block
EncryptedWriteBegin ==
    /\ Running("se_encrypted_write") /\ TopFrame.pc = "begin"
    /\ IF write_enters(0, TopFrame.len)
       THEN /\ stack' = WriteBlock(TopFrame, 0, TopFrame.len)
            /\ ret' = NoRet
            /\ UNCHANGED <<top, pf>>
       ELSE /\ Returned(Ret(0, <<>>))
            /\ pf' = [pf EXCEPT !.ew.done = TRUE, !.ew.rc = 0]
    /\ UNCHANGED <<cnt, current_opcode, bus, rd, line, chip, au>>

\* se_encrypted_write, lines 806-818: se_encrypted_write32 returned; -1, the
\* next block, or 0
EncryptedWriteAfterBlock ==
    /\ Running("se_encrypted_write") /\ TopFrame.pc = "block" /\ ret.valid
    /\ LET f    == TopFrame
           nxt  == write_loop(f.blk, f.len, ret.rc)
           seen == [pf EXCEPT !.ew.calls =
                       Append(@, [blk |-> pf.w32.blk, tmp |-> pf.w32.data,
                                  plain |-> pf.w32.plain, stored |-> pf.w32.stored,
                                  rc |-> ret.rc])]
       IN IF nxt = "loop"
          THEN /\ stack' = WriteBlock(f, f.blk + 1, f.len - 32)
               /\ ret' = NoRet
               /\ pf' = seen
               /\ top' = top
          ELSE LET v == IF nxt = "return_0" THEN 0 ELSE -1
               IN /\ Returned(Ret(v, <<>>))
                  /\ pf' = [seen EXCEPT !.ew.done = TRUE, !.ew.rc = v]
    /\ UNCHANGED <<cnt, current_opcode, bus, rd, line, chip, au>>

\* se_write(OP_Read, 0x80, blk<<3, NULL, 0) and the call of
\* se_read(&config[32*blk], 32), lines 476-478
ConfigReadBlock(f, blk) ==
    LET items == se_write_emits(OP_Read, 128, blk * 8, <<>>)
    IN /\ current_opcode' = se_write_opcode(OP_Read)
       /\ Sends(items, <<>>)
       /\ stack' = Append(ReplaceTop([f EXCEPT !.pc = "read", !.blk = blk]),
                          ReadFrame(32))
       /\ rd' = [NewRd(32) EXCEPT !.op = OP_Read]
       /\ ret' = NoRet
       /\ top' = top

\* the application calls se_config_read(config)
CallConfigRead ==
    /\ FirstCall
    /\ stack' = <<[fn |-> "se_config_read", pc |-> "begin", blk |-> 0,
                   config |-> <<>>]>>
    /\ top' = NewTop("se_config_read", <<>>)
    /\ ret' = NoRet
    /\ bus' = <<>>
    /\ rd' = IdleRd
    /\ au' = IdleAu
    /\ pf' = [IdleOps EXCEPT !.cr.active = TRUE]
    /\ UNCHANGED <<cnt, current_opcode, line, chip>>

\* se_config_read, lines 475-478: the first block
ConfigReadBegin ==
    /\ Running("se_config_read") /\ TopFrame.pc = "begin"
    /\ ConfigReadBlock(TopFrame, 0)
    /\ pf' = [pf EXCEPT !.cr.reads = Append(@, bus'[2].hdr)]
    /\ UNCHANGED <<cnt, line, au>>

\* se_config_read, lines 475-489: se_read returned; the next block, or
\* _send_bits(IOFLAG_SLEEP) and -1 or 0
ConfigReadAfterRead ==
    /\ Running("se_config_read") /\ TopFrame.pc = "read" /\ ret.valid
    /\ LET f    == [TopFrame EXCEPT !.config = @ \o ret.data]
           nxt  == config_read_loop(f.blk, ret.rc)
           seen == [pf EXCEPT !.cr.rcs = Append(@, ret.rc)]
       IN IF nxt = "loop"
          THEN /\ ConfigReadBlock(f, f.blk + 1)
               /\ pf' = [seen EXCEPT !.cr.reads = Append(@, bus'[2].hdr)]
          ELSE LET v == IF nxt = "out" THEN 0 ELSE -1
               IN /\ SendsFlag(IOFLAG_SLEEP)
                  /\ Returned(Ret(v, f.config))
                  /\ pf' = [seen EXCEPT !.cr.done = TRUE, !.cr.rc = v]
                  /\ UNCHANGED <<current_opcode, rd>>
    /\ UNCHANGED <<cnt, line, au>>

\* se_checkmac and se_pair_unlock as the first call
CallCheckmacFirst == FirstCall /\ CallCheckmac
CallPairUnlockFirst == FirstCall /\ CallPairUnlock

\* Specification of the protocol operations over the chip and a line that
\* may fail
MaxOpsFaults == 1

InitOps ==
    /\ cnt = ZeroCnt
    /\ current_opcode = 0
    /\ stack = <<>>
    /\ ret = NoRet
    /\ bus = <<>>
    /\ rd = IdleRd
    /\ top = IdleTop
    /\ line = [LineLossless EXCEPT !.faults = MaxOpsFaults]
    /\ chip \in {ChipOn, ChipForeign}
    /\ au = IdleAu
    /\ pf = IdleOps

\* the same with a line that may also go dead, and the host's own chip
InitOpsDead ==
    /\ cnt = ZeroCnt
    /\ current_opcode = 0
    /\ stack = <<>>
    /\ ret = NoRet
    /\ bus = <<>>
    /\ rd = IdleRd
    /\ top = IdleTop
    /\ line = [LineInit EXCEPT !.faults = MaxOpsFaults]
    /\ chip = ChipOn
    /\ au = IdleAu
    /\ pf = IdleOps

\* the steps inside se_gendig_slot, se_pick_nonce and se_read apart
GendigSteps ==
    \/ GendigBegin
    \/ GendigAfterNonce
    \/ GendigAfterStatus

\* se_config_read
NextCfg ==
    \/ CallConfigRead
    \/ ConfigReadBegin
    \/ ConfigReadAfterRead
    \/ ReadAttempt

SpecCfg == InitOpsDead /\ [][NextCfg]_vars

\* se_checkmac_hard
NextHard ==
    \/ CallCheckmacHard
    \/ CheckmacHardBegin
    \/ CheckmacHardAfterGendig
    \/ CheckmacHardAfterIct
    \/ GendigSteps
    \/ IsCorrectTempkeyBegin
    \/ IsCorrectTempkeyAfterRead
    \/ PickNonceBegin
    \/ PickNonceAfterRead
    \/ ReadAttempt

SpecHard == InitOpsDead /\ [][NextHard]_vars

\* se_encrypted_write32 and se_encrypted_write
NextWrite ==
    \/ CallWrite32
    \/ Write32Begin
    \/ Write32AfterUnlock
    \/ Write32AfterGendig
    \/ Write32AfterStatus
    \/ CallEncryptedWrite
    \/ EncryptedWriteBegin
    \/ EncryptedWriteAfterBlock
    \/ GendigSteps
    \/ PairUnlockLoop
    \/ PairUnlockAfter
    \/ CheckmacSteps

SpecWrite == InitOps /\ [][NextWrite]_vars

\* every operation
NextOps ==
    \/ CallPickNonce
    \/ CallGendig
    \/ CallIsCorrectTempkey
    \/ CallCheckmacHard
    \/ CheckmacHardBegin
    \/ CheckmacHardAfterGendig
    \/ CheckmacHardAfterIct
    \/ IsCorrectTempkeyBegin
    \/ IsCorrectTempkeyAfterRead
    \/ CallConfigRead
    \/ ConfigReadBegin
    \/ ConfigReadAfterRead
    \/ CallCheckmacFirst
    \/ CallPairUnlockFirst
    \/ NextWrite

SpecOps == InitOps /\ [][NextOps]_vars

----------------------------------------------------------------------------
(* The protocol operations: claims C11, C13, C14, C18, C20                 *)

\* C13: se_config_read issues plain Read commands for blocks 0, 1, 2, 3 in
\* that order, returns 0 only if all four reads succeed, issues no Read
\* after the first failing read and then returns -1, and in every outcome
\* its last emission is the SLEEP flag.
C13_ConfigRead ==
    pf.cr.active =>
        /\ Len(pf.cr.reads) <= 4
        /\ \A i \in DOMAIN pf.cr.reads :
              /\ pf.cr.reads[i] = known(OP_Read, 128, 8 * (i - 1), 0)
              /\ \A j \in 1..(i - 1) : j \in DOMAIN pf.cr.rcs /\ pf.cr.rcs[j] = 0
        /\ pf.cr.done =>
              /\ pf.cr.rc \in {0, -1}
              /\ Len(pf.cr.rcs) = Len(pf.cr.reads)
              /\ pf.cr.rc = 0 <=> pf.cr.rcs = <<0, 0, 0, 0>>
              /\ pf.cr.rc = -1 <=> pf.cr.rcs[Len(pf.cr.rcs)] = -1
              /\ bus[Len(bus)] = Flag(IOFLAG_SLEEP)
              /\ top.done /\ top.rc = pf.cr.rc

\* the third read failed: no fourth Read, -1, SLEEP sent last
C13_Witness ==
    /\ pf.cr.done /\ pf.cr.rc = -1
    /\ pf.cr.rcs = <<0, 0, -1>>
    /\ Len(pf.cr.reads) = 3
    /\ bus[Len(bus)] = Flag(IOFLAG_SLEEP)

\* C14: se_checkmac_hard returns -1 exactly when se_gendig_slot fails, and
\* then no MAC command is issued; it returns -2 exactly when se_gendig_slot
\* succeeds and se_is_correct_tempkey returns false, which it does when the
\* read of the MAC fails; it returns 0 otherwise.
C14_CheckmacHard ==
    (pf.ch.active /\ pf.ch.done) =>
        /\ pf.gd.done /\ pf.gd.rc \in {0, -1}
        /\ pf.ch.rc = -1 <=> pf.gd.rc = -1
        /\ pf.ch.rc = -1 => (~pf.ch.mac_sent /\ ~pf.ict.done)
        /\ pf.ch.rc = -2 <=> (pf.gd.rc = 0 /\ pf.ict.done /\ pf.ict.ok = 0)
        /\ (pf.gd.rc = 0 /\ pf.ict.read_rc = -1) => pf.ch.rc = -2
        /\ pf.ch.rc = 0 <=> (pf.gd.rc = 0 /\ pf.ict.done /\ pf.ict.ok = 1)
        /\ pf.gd.rc = 0 => pf.ch.mac_sent
        /\ top.done /\ top.rc = pf.ch.rc

\* se_gendig_slot succeeded, the read of the MAC failed after all retries,
\* the result is -2
C14_Witness ==
    /\ pf.ch.active /\ pf.ch.done /\ pf.ch.rc = -2
    /\ pf.gd.rc = 0 /\ pf.ict.read_rc = -1 /\ pf.ch.mac_sent
    /\ cnt.retry_out = 1

\* C18: se_encrypted_write32 puts a Write command on the wire only after, in
\* the same call, se_pair_unlock returned 0 and then se_gendig_slot returned
\* 0; if either fails it returns -1 and no Write command is sent; it returns
\* 0 only when the status byte read back for the Write is 0.
C18_WriteOrdering ==
    pf.w32.active =>
        /\ pf.w32.pu_rc # 9 => (au.pu.done /\ au.pu.rc = pf.w32.pu_rc)
        /\ pf.w32.gd_rc # 9 => (pf.w32.pu_rc = 0 /\ pf.gd.done /\ pf.gd.rc = pf.w32.gd_rc)
        /\ (~pf.w32.done /\ LastCmdIs(bus, OP_Write)
                         /\ (Running("se_read") \/ Running("se_encrypted_write32"))
                         /\ pf.w32.pu_rc # 9) =>
              (pf.w32.pu_rc = 0 /\ pf.w32.gd_rc = 0)
        /\ pf.w32.done =>
              /\ pf.w32.rc \in {0, -1}
              /\ pf.w32.write_sent => (pf.w32.pu_rc = 0 /\ pf.w32.gd_rc = 0)
              /\ (pf.w32.pu_rc # 0 \/ pf.w32.gd_rc # 0) =>
                    (pf.w32.rc = -1 /\ ~pf.w32.write_sent /\ pf.w32.status = 9)
              /\ pf.w32.rc = 0 => (pf.w32.write_sent /\ pf.w32.status = 0)

\* se_pair_unlock returned 0, se_gendig_slot failed: -1 and no Write
C18_Witness ==
    /\ pf.w32.active /\ pf.w32.done /\ pf.w32.rc = -1
    /\ pf.w32.pu_rc = 0 /\ pf.w32.gd_rc = -1
    /\ ~pf.w32.write_sent
    /\ LastCmdIs(bus, OP_Nonce)

\* bytes 32k .. 32k+31 of the first len bytes of data, zero beyond len
PaddedBlock(data, len, k) ==
    [i \in 1..32 |-> IF 32 * k + i <= len THEN data[32 * k + i] ELSE 0]

\* C11: for 1 <= len <= 96, se_encrypted_write calls se_encrypted_write32
\* for the blocks 0, 1, 2 in increasing order, ceil(len/32) of them when all
\* succeed; each transmitted 32-byte ciphertext XORed with that block's
\* digest is data[32k .. 32k+31] with zeros beyond len; the first failing
\* block makes it return -1 and no later block is attempted.
C11_EncryptedWrite ==
    (pf.ew.active /\ top.arg[1] \in 1..96) =>
        LET len   == top.arg[1]
            data  == WriteData(len)
            calls == pf.ew.calls
        IN /\ Len(calls) <= (len + 31) \div 32
           /\ \A i \in DOMAIN calls :
                 /\ calls[i].blk = i - 1
                 /\ calls[i].tmp = PaddedBlock(data, len, i - 1)
                 /\ \A j \in 1..(i - 1) : calls[j].rc = 0
                 /\ calls[i].plain # <<>> =>
                       calls[i].plain = PaddedBlock(data, len, i - 1)
                 /\ calls[i].rc = 0 =>
                       /\ calls[i].plain # <<>>
                       /\ calls[i].stored
                            = <<8 * WriteSlot, i - 1, PaddedBlock(data, len, i - 1)>>
           /\ pf.ew.done =>
                 /\ pf.ew.rc \in {0, -1}
                 /\ calls # <<>>
                 /\ pf.ew.rc = 0 <=>
                       /\ Len(calls) = (len + 31) \div 32
                       /\ \A i \in DOMAIN calls : calls[i].rc = 0
                 /\ pf.ew.rc = -1 <=> calls[Len(calls)].rc = -1
                 /\ top.done /\ top.rc = pf.ew.rc

\* 33 bytes were written in two blocks, the second one padded with zeros
C11_Witness ==
    /\ pf.ew.active /\ pf.ew.done /\ pf.ew.rc = 0
    /\ top.arg[1] = 33
    /\ Len(pf.ew.calls) = 2
    /\ pf.ew.calls[2].plain = <<WriteData(33)[33]>> \o SeqOf(31, 0)
    /\ pf.ew.calls[2].stored[3] = pf.ew.calls[2].plain

\* the operations that end with the chip sent to sleep
SleepOps == {"se_pick_nonce", "se_gendig_slot", "se_is_correct_tempkey",
             "se_checkmac", "se_checkmac_hard", "se_pair_unlock",
             "se_encrypted_write32", "se_encrypted_write", "se_config_read"}

\* the flags among what was put on the wire
FlagsOf(wire) == SelectSeq(wire, LAMBDA it : it.t = "flag")

\* C20: whenever se_pick_nonce, se_gendig_slot, se_is_correct_tempkey,
\* se_checkmac, se_checkmac_hard, se_pair_unlock, se_encrypted_write32,
\* se_encrypted_write (with len > 0) or se_config_read returns, with any
\* result and after any transport failures, the last flag the host put on
\* the wire is SLEEP, and it is the last emission: not IDLE, not TX.
C20_SleepLast ==
    [][(/\ stack # <<>>
        /\ Len(stack') < Len(stack)
        /\ TopFrame.fn \in SleepOps
        /\ ~(TopFrame.fn = "se_encrypted_write" /\ top.arg[1] = 0))
       => /\ FlagsOf(bus') # <<>>
          /\ FlagsOf(bus')[Len(FlagsOf(bus'))] = Flag(IOFLAG_SLEEP)
          /\ bus'[Len(bus')] = Flag(IOFLAG_SLEEP)]_vars

\* se_encrypted_write returned -1 after a response was lost on the line
C20_Witness ==
    /\ top.fn = "se_encrypted_write" /\ top.done /\ top.rc = -1
    /\ line.faults = 0
    /\ Len(pf.ew.calls) = 2
    /\ bus[Len(bus)] = Flag(IOFLAG_SLEEP)

----------------------------------------------------------------------------
(* se_read one _read_byte at a time: the receive loop of se_read_response  *)
(* (lines 245-254) against a line that delivers a frame, nothing, or       *)
(* pulses without end                                                      *)

\* len given to se_read
PulseLen == 2

\* the response the chip was asked for
PulsePayload == [i \in 1..PulseLen |-> 7]

\* (max_len + 1) * 8 with max_len = len + 3 (lines 227, 338)
PulseMaxExpect == (PulseLen + 3 + 1) * 8

\* pulses counted one by one; the loop treats every larger count alike
PulseCap == PulseMaxExpect + 8

\* _read_byte, lines 155-162: the received byte when RXNE is set, else -1
\* (receiver timeout RTOF, or the failsafe after 5 ticks of the tick counter)
read_byte_result(rxne, rdr) == IF rxne THEN read_byte(rdr) ELSE -1

\* what the line may deliver after one TX flag: nothing, the response, an
\* error status
PulseFeeds ==
    { send_serialized(b) : b \in {<<>>, ChipFrame(PulsePayload), ChipFrame(<<238>>)} }

\* the pulse a line that never goes idle delivers after pulse ch
PulseAfter(ch) == IF ch = BIT1 THEN BIT0 ELSE BIT1

IdlePulse == [pc |-> "idle", retry |-> 0, feed |-> <<>>, babble |-> FALSE,
              pulses |-> <<>>, actual |-> 0, ch |-> -1, rc |-> 9]

InitPulse ==
    /\ cnt = ZeroCnt
    /\ current_opcode = OP_Read
    /\ stack = <<>>
    /\ ret = NoRet
    /\ bus = <<>>
    /\ rd = IdleRd
    /\ top = IdleTop
    /\ line = LineInit
    /\ chip = ChipOff
    /\ au = IdleAu
    /\ pf = IdlePulse

\* se_read is called: for (retry=100; ...), line 335
PulseCall ==
    /\ pf.pc = "idle"
    /\ pf' = [pf EXCEPT !.pc = "tx", !.retry = RetryBudget]
    /\ UNCHANGED host

\* se_read_response up to its loop, lines 227-245: the TX flag, the flush,
\* actual = 0; the line decides what it delivers
PulseTx ==
    /\ pf.pc = "tx"
    /\ bus' = Append(bus, Flag(IOFLAG_TX))
    /\ \/ \E f \in PulseFeeds :
            pf' = [pf EXCEPT !.pc = "rx", !.feed = f, !.babble = FALSE,
                             !.pulses = <<>>, !.actual = 0, !.ch = -1]
       \/ pf' = [pf EXCEPT !.pc = "rx", !.feed = <<>>, !.babble = TRUE,
                           !.pulses = <<>>, !.actual = 0, !.ch = -1]
    /\ UNCHANGED <<cnt, current_opcode, stack, ret, rd, top, line, chip, au>>

\* one pass of the loop of se_read_response in which _read_byte returns a
\* byte (lines 246-253): ch >= 0, the byte is stored while it fits, actual++
PulseByte ==
    /\ pf.pc = "rx"
    /\ pf.babble \/ pf.feed # <<>>
    /\ LET rdr == IF pf.babble THEN PulseAfter(pf.ch) ELSE Head(pf.feed)
           ch  == read_byte_result(TRUE, rdr)
       IN pf' = [pf EXCEPT !.ch = ch,
                           !.feed = IF pf.babble THEN <<>> ELSE Tail(pf.feed),
                           !.pulses = IF pf.actual < PulseCap
                                      THEN Append(@, ch) ELSE @,
                           !.actual = Min(@ + 1, PulseCap)]
    /\ UNCHANGED host

\* the bytes _read_byte returns for the pulses of a feed
PulseBytes(f) == [i \in 1..Len(f) |-> read_byte_result(TRUE, f[i])]

\* lines 256-258 and 339-390 on each thing the receive loop may have
\* collected when the line went idle: where control goes, what is counted
PulseTries ==
    [p \in {PulseBytes(f) : f \in PulseFeeds} |->
        se_read_try(OP_Read, PulseLen, se_read_response(p, PulseLen + 3))]

\* the pass in which _read_byte returns -1 (line 247: break), the rest of
\* se_read_response (lines 256-258) and of the pass of the loop of se_read
\* (lines 339-394), and, when that loop ends, lines 395-396
PulseEnd ==
    /\ pf.pc = "rx"
    /\ ~pf.babble /\ pf.feed = <<>>
    /\ read_byte_result(FALSE, 0) < 0
    /\ LET t     == PulseTries[pf.pulses]
           ok    == t.go = "return_0"
           again == t.go = "try_again"
           more  == again /\ loop_continues(pf.retry)
           c1    == Incr(cnt, t.inc)
           c2    == IF again THEN Incr(c1, {"ln_retry"}) ELSE c1
           c3    == IF again /\ ~more THEN Incr(c2, {"retry_out"}) ELSE c2
       IN /\ cnt' = c3
          /\ bus' = bus \o (IF ok THEN <<Flag(IOFLAG_IDLE)>> ELSE <<>>)
          /\ pf' = IF more
                   THEN [pf EXCEPT !.pc = "tx", !.retry = @ - 1, !.ch = -1]
                   ELSE [pf EXCEPT !.pc = "done", !.ch = -1,
                                   !.rc = IF ok THEN 0 ELSE -1]
    /\ UNCHANGED <<current_opcode, stack, ret, rd, top, line, chip, au>>

NextPulse == PulseCall \/ PulseTx \/ PulseByte \/ PulseEnd

\* the processor keeps executing: a step that is possible is taken
SpecPulse == InitPulse /\ [][NextPulse]_vars /\ WF_vars(NextPulse)

\* C19: every call of se_read eventually returns, whatever the line
\* delivers, a line that keeps delivering pulses without an idle gap
\* included
C19_ReadReturns == (pf.pc # "idle") ~> (pf.pc = "done")

\* a call of se_read returns once the line goes idle after each TX flag
PulseIdleReturns == (pf.pc # "idle") ~> (pf.pc = "done" \/ pf.babble)

\* the receive loop has counted more pulses than the buffer holds
PulseOverrun == pf.pc = "rx" /\ pf.babble /\ pf.actual = PulseCap

----------------------------------------------------------------------------
(* The diagnostic counters over any sequence of se_write, se_read and      *)
(* se_dump_stats calls                                                     *)

\* se_dump_stats, lines 821-837: the counters are added up in the local tmp,
\* which is cleared when positive; no counter is assigned
se_dump_stats(c) ==
    LET sum == c.crc_errors + c.not_ready_n + c.short_error + c.len_error
               + c.len_error_two + c.ln_retry + c.retry_out
    IN [cnt |-> c, tmp |-> IF sum > 0 THEN 0 ELSE sum]

\* the application calls se_dump_stats()
CallDumpStats ==
    /\ stack = <<>>
    /\ top.fn # "se_dump_stats"
    /\ cnt' = se_dump_stats(cnt).cnt
    /\ top' = [fn |-> "se_dump_stats", arg |-> <<se_dump_stats(cnt).tmp>>,
               done |-> TRUE, rc |-> 0]
    /\ ret' = NoRet
    /\ bus' = <<>>
    /\ rd' = IdleRd
    /\ UNCHANGED <<current_opcode, stack, line, chip, au, pf>>

NextStats == CallWrite \/ CallRead \/ ReadAttempt \/ CallDumpStats

SpecStats == Init /\ [][NextStats]_vars

\* the relations between the counters
CountersAccount ==
    /\ cnt.ln_retry = cnt.not_ready_n + cnt.short_error + cnt.crc_errors
                      + (cnt.len_error - cnt.len_error_two)
    /\ cnt.wdgtimeout <= cnt.len_error_two
    /\ cnt.len_error_two <= cnt.len_error
    /\ 101 * cnt.retry_out <= cnt.ln_retry

\* no counter goes down in a step
CountersGrow == \A k \in CounterNames : cnt'[k] >= cnt[k]

\* C21: starting from all-zero counters, after any sequence of operations
\* ln_retry = not_ready_n + short_error + crc_errors + (len_error -
\* len_error_two), wdgtimeout <= len_error_two <= len_error and
\* 101 * retry_out <= ln_retry; no operation decreases or resets a counter
C21_CounterAccounting == []CountersAccount /\ [][CountersGrow]_vars

\* se_dump_stats has run after a read that used up its retries and after
\* reads that counted an error status and another kind of retry
C21_Witness ==
    /\ top.fn = "se_dump_stats"
    /\ cnt.retry_out = 1
    /\ cnt.ln_retry > 101
    /\ cnt.len_error_two = 1

----------------------------------------------------------------------------
(* Commands and responses alternate inside the protocol operations         *)

\* the wire holds a command frame: a se_write of the current call is the
\* last one made
WireHasCmd == Len(bus) >= 2 /\ bus[1] = Wake /\ bus[2].t = "cmd"

\* the TX flags of n passes of se_read, and nothing else, follow the frame
OnlyTxFollows(n) ==
    /\ Len(bus) >= 2 + n
    /\ \A i \in 3..(2 + n) : bus[i] = Flag(IOFLAG_TX)

\* C22: at every se_read performed inside an operation, current_opcode is
\* the opcode of the se_write issued immediately before it in the same
\* operation and is never Info; the read in progress is the only one since
\* that write, and between reads every write made has had its one read
C22_Sequential ==
    /\ Running("se_read") =>
         /\ WireHasCmd
         /\ bus[2].hdr.op = current_opcode
         /\ rd.active /\ rd.op = current_opcode
         /\ current_opcode # OP_Info
         /\ Len(bus) = 2 + rd.tries
         /\ OnlyTxFollows(rd.tries)
    /\ (stack # <<>> /\ ~Running("se_read") /\ WireHasCmd) =>
         /\ ~rd.active \/ rd.done
         /\ rd.op = bus[2].hdr.op
         /\ rd.tries >= 1
         /\ OnlyTxFollows(rd.tries)
         /\ \A i \in 1..Len(bus) : i # 2 => bus[i].t # "cmd"

\* the second se_read of se_checkmac_hard -> se_gendig_slot is in its
\* second pass, after the read of se_pick_nonce finished
C22_Witness ==
    /\ Running("se_read")
    /\ stack[1].fn = "se_checkmac_hard"
    /\ current_opcode = OP_GenDig
    /\ rd.tries = 1

----------------------------------------------------------------------------
(* The command frame against the test that responses must pass             *)

\* the bytes of the frame written last that follow the CMD flag
LastLogical == Tail(LastFrame)

\* the last two bytes are the CRC, from a zero register and in one call,
\* over all the bytes before them
LastCrcOneShot ==
    LET b == LastLogical
        n == Len(b)
    IN SubSeq(b, n - 1, n) = se_crc16_chain(n - 2, b, <<0, 0>>)

\* C23: for every opcode, p1, p2 and body, the bytes se_write emits after
\* the CMD flag pass the test check_crc applies to responses: the first
\* byte equals the total byte count, and the last two bytes equal
\* se_crc16_chain from a zero register over all preceding bytes (the CRC
\* chained over header and body equals the one-shot CRC)
C23_FramingSymmetry ==
    pf.last # <<>> =>
        /\ LastLogical[1] = Len(LastLogical)
        /\ LastCrcOneShot

\* the chained CRC equals the one-shot CRC for every body length
FrameCrcChained == pf.last # <<>> => LastCrcOneShot

\* frames whose count fits the length byte pass check_crc
FrameShortPasses ==
    (pf.last # <<>> /\ Len(pf.last[4]) <= 248) =>
        check_crc(LastLogical, Len(LastLogical))

\* a frame with a body of 64 bytes has been written
FrameShortWritten == pf.last # <<>> /\ Len(pf.last[4]) = 64

====
